---- MODULE Spec2Model ----
(***************************************************************************)
(* Model of packages/core/src/secp256k1/secp256k1.ts: the secp256k1        *)
(* wrapper (key validity, public key derivation, sign, recover, public key *)
(* compression) over the @noble/curves library.                            *)
(*                                                                         *)
(* Scaling.  TLC cannot compute on 256-bit integers, so the curve is the   *)
(* same equation y^2 = x^3 + 7 over a small prime field, with a group of   *)
(* prime order, and every scalar, coordinate and hash is KeyLen bytes wide *)
(* where the source has 32.  All widths of the source are kept as          *)
(* functions of KeyLen: 32 -> KeyLen, 33 -> KeyLen + 1, 64 -> 2 * KeyLen,  *)
(* 65 -> 2 * KeyLen + 1.  Bytes are 0..255 and buffers are sequences of    *)
(* bytes, big-endian as in the source.                                     *)
(*                                                                         *)
(* On secp256k1 the nonce point of a signature has an x coordinate at or   *)
(* above the group order with probability about 2^-128, and no input       *)
(* showing it is known.  The model takes that event as not occurring: its  *)
(* field prime is below its group order.                                   *)
(*                                                                         *)
(* Arguments are of their declared TypeScript types: every Buffer or       *)
(* Uint8Array argument is a sequence of bytes.                             *)
(***************************************************************************)
EXTENDS Integers, Sequences, FiniteSets, TLC

VARIABLES op, args, result, memo, entropy

vars == <<op, args, result, memo, entropy>>

\* Scaled width, in bytes, of a private key, a coordinate and a message hash.
KeyLen == 2


\* ------------------------------------------------------------------ buffers

ZERO_BUFFER(n) == [i \in 1..n |-> 0]

IsBuffer(b) == DOMAIN b = 1..Len(b) /\ \A i \in 1..Len(b) : b[i] \in 0..255

\* Buffer.compare: -1, 0 or 1 by the first byte that differs, else by length.
BufferCompare(a, b) ==
    LET n == IF Len(a) < Len(b) THEN Len(a) ELSE Len(b)
        diff == {i \in 1..n : a[i] # b[i]}
        first == CHOOSE i \in diff : \A j \in diff : i <= j
    IN  IF diff # {} THEN (IF a[first] < b[first] THEN -1 ELSE 1)
        ELSE IF Len(a) < Len(b) THEN -1
        ELSE IF Len(a) > Len(b) THEN 1
        ELSE 0

\* Uint8Array.prototype.slice(from, to), 0-based, end exclusive, clamped.
Slice(b, from, to) ==
    LET hi == IF to < Len(b) THEN to ELSE Len(b)
    IN  IF from >= hi THEN <<>> ELSE SubSeq(b, from + 1, hi)

\* The big-endian integer a buffer holds.
BEValue(b) ==
    LET val[i \in 0..Len(b)] == IF i = 0 THEN 0 ELSE 256 * val[i - 1] + b[i]
    IN  val[Len(b)]

\* BN.toArray('be', len): the big-endian bytes of v, left-padded to len.
ToBytes(v, len) == [i \in 1..len |-> (v \div (256 ^ (len - i))) % 256]

\* ------------------------------------------------------------ the curve
\* y^2 = x^3 + CurveB over the field of FieldP elements; its points form a
\* group of prime order CurveN, generated by BASE.

FieldP == 67

CurveB == 7

CurveN == 79

Mod(a, m) == ((a % m) + m) % m

InvSearch(a, m) == CHOOSE x \in 1..(m - 1) : Mod(a * x, m) = 1

InvTableP == [a \in 1..(FieldP - 1) |-> InvSearch(a, FieldP)]

InvTableN == [a \in 1..(CurveN - 1) |-> InvSearch(a, CurveN)]

\* The inverse of a modulo m, m the field prime or the group order.
Inv(a, m) == IF m = FieldP THEN InvTableP[a] ELSE InvTableN[a]

\* Affine points; the point at infinity is ZeroPoint.
ZeroPoint == <<-1, -1>>

AllPoints == (-1..(FieldP - 1)) \X (-1..(FieldP - 1))

OnCurve(P) ==
    /\ P[1] \in 0..(FieldP - 1)
    /\ P[2] \in 0..(FieldP - 1)
    /\ Mod(P[2] * P[2] - (P[1] * P[1] * P[1] + CurveB), FieldP) = 0

\* A local function binds each argument to its value once.
PointAdd(P0, Q0) ==
    LET add[P \in AllPoints, Q \in AllPoints] ==
            IF P = ZeroPoint THEN Q
            ELSE IF Q = ZeroPoint THEN P
            ELSE IF P[1] = Q[1] /\ Mod(P[2] + Q[2], FieldP) = 0 THEN ZeroPoint
            ELSE LET lam == IF P = Q
                            THEN Mod(3 * P[1] * P[1] * Inv(Mod(2 * P[2], FieldP), FieldP), FieldP)
                            ELSE Mod((Q[2] - P[2]) * Inv(Mod(Q[1] - P[1], FieldP), FieldP), FieldP)
                     x3 == Mod(lam * lam - P[1] - Q[1], FieldP)
                     y3 == Mod(lam * (P[1] - x3) - P[2], FieldP)
                 IN  <<x3, y3>>
    IN  add[P0, Q0]

\* k * P by double-and-add.
PointMultiply(k0, P0) ==
    LET mulP[P \in AllPoints] ==
            LET step[half \in AllPoints, bit \in {0, 1}] ==
                    IF bit = 1 THEN PointAdd(PointAdd(half, half), P)
                    ELSE PointAdd(half, half)
                mul[k \in 0..(CurveN - 1)] ==
                    IF k = 0 THEN ZeroPoint ELSE step[mul[k \div 2], k % 2]
            IN  mul[k0]
    IN  mulP[P0]

\* The base point: the curve point of least x with an even y.
BASE == <<2, 22>>

\* The multiples of the base point.
BaseMultiples == [k \in 0..(CurveN - 1) |-> PointMultiply(k, BASE)]

\* -------------------------------------------------- outcomes of a call

TypedErrors ==
    { "InvalidSecp256k1PrivateKeyError", "InvalidSecp256k1MessageHashError",
      "InvalidSecp256k1SignatureError", "InvalidSecp256k1SignatureRecoveryError" }

\* An Error of the curve library, none of the typed errors of the SDK.
UntypedError == "Error"

\* lib: whether the call reached the curve library.
Returned(v, lib) == [ok |-> TRUE, err |-> "", val |-> v, bool |-> FALSE, lib |-> lib]

ReturnedBool(b) == [ok |-> TRUE, err |-> "", val |-> <<>>, bool |-> b, lib |-> FALSE]

Thrown(e, lib) == [ok |-> FALSE, err |-> e, val |-> <<>>, bool |-> FALSE, lib |-> lib]

\* ------------------------------------------ @noble/curves, as it is used

IsWithinCurveOrder(v) == 0 < v /\ v < CurveN

\* Point.toRawBytes(isCompressed)
ToRawBytes(P, isCompressed) ==
    IF isCompressed
    THEN <<2 + (P[2] % 2)>> \o ToBytes(P[1], KeyLen)
    ELSE <<4>> \o ToBytes(P[1], KeyLen) \o ToBytes(P[2], KeyLen)

\* _secp256k1.getPublicKey(privateKey, isCompressed)
GetPublicKey(privateKey, isCompressed) ==
    IF Len(privateKey) = KeyLen /\ IsWithinCurveOrder(BEValue(privateKey))
    THEN Returned(ToRawBytes(BaseMultiples[BEValue(privateKey)], isCompressed), TRUE)
    ELSE Thrown(UntypedError, TRUE)

\* bits2int_modN
Bits2IntModN(bytes) == BEValue(bytes) % CurveN

\* The t-th nonce the RFC 6979 generator proposes when seeded with the private
\* scalar d, the hash scalar m and the extra entropy x (0 when the caller gives
\* none): a fixed mixing function stands for HMAC-DRBG.
NonceCandidate(m, d, x, t) == Mod(31 * m + 17 * d + 13 * x + 7 * t + 11, CurveN)

\* What k2sig and sign return: def = FALSE stands for undefined.
LibSignatures == [def : BOOLEAN, r : 0..(CurveN - 1), s : 0..(CurveN - 1), recovery : 0..3]

NoSignature == [def |-> FALSE, r |-> 0, s |-> 0, recovery |-> 0]

\* k2sig: the signature for nonce k, or none when k is unusable: r and s from the
\* nonce point q = k * BASE, the recovery id, and the low-s normalisation that
\* flips the id's parity bit.
K2Sig(m, d, k0) ==
    LET at[k \in 1..(CurveN - 1), q \in AllPoints] ==
            LET r == Mod(q[1], CurveN)
                s == Mod(Inv(k, CurveN) * Mod(m + r * d, CurveN), CurveN)
                recovery == (IF q[1] = r THEN 0 ELSE 2) + (q[2] % 2)
                high == s > (CurveN \div 2)
            IN  IF r = 0 \/ s = 0 THEN NoSignature
                ELSE [def |-> TRUE, r |-> r,
                      s |-> IF high THEN CurveN - s ELSE s,
                      recovery |-> IF high
                                   THEN (IF recovery % 2 = 1 THEN recovery - 1 ELSE recovery + 1)
                                   ELSE recovery]
    IN  IF ~IsWithinCurveOrder(k0) THEN NoSignature
        ELSE at[k0, BaseMultiples[k0]]

\* _secp256k1.sign(messageHash, privateKey, {lowS: true, extraEntropy}): the
\* signature of the first usable nonce among the generator's proposals.
LibSignOpts(messageHash, privateKey, extraEntropy) ==
    LET first[m \in 0..(CurveN - 1), d \in 0..(CurveN - 1), x \in 0..(CurveN - 1)] ==
            LET usable(t) == K2Sig(m, d, NonceCandidate(m, d, x, t)).def
                t0 == CHOOSE t \in 0..(CurveN - 1) :
                          usable(t) /\ \A u \in 0..(t - 1) : ~usable(u)
            IN  K2Sig(m, d, NonceCandidate(m, d, x, t0))
    IN  first[Bits2IntModN(messageHash), BEValue(privateKey), Bits2IntModN(extraEntropy)]

\* The library called with entropy of the host's random source mixed into the nonce.
LibSignHedged(messageHash, privateKey) == LibSignOpts(messageHash, privateKey, entropy)

\* _secp256k1.sign(messageHash, privateKey): the default options, no extra entropy.
LibSign(messageHash, privateKey) == LibSignOpts(messageHash, privateKey, <<>>)

\* Point.fromHex of a compressed encoding: the point of abscissa x whose y has
\* the parity asked for, or none.
LiftX(x, odd) ==
    LET ys == {y \in 0..(FieldP - 1) : OnCurve(<<x, y>>) /\ y % 2 = odd}
    IN  IF 0 < x /\ x < FieldP /\ ys # {}
        THEN [def |-> TRUE, P |-> <<x, CHOOSE y \in ys : TRUE>>]
        ELSE [def |-> FALSE, P |-> ZeroPoint]

\* Signature.fromCompact(bytes).addRecoveryBit(rec).recoverPublicKey(msgHash)
\*     .toRawBytes(false)
LibRecover(compact, rec, msgHash) ==
    LET r == BEValue(Slice(compact, 0, KeyLen))
        s == BEValue(Slice(compact, KeyLen, 2 * KeyLen))
        h == Bits2IntModN(msgHash)
        radj == IF rec \in {2, 3} THEN r + CurveN ELSE r
        R == LiftX(radj, rec % 2)
        ir == Inv(Mod(radj, CurveN), CurveN)
        u1 == Mod((0 - h) * ir, CurveN)
        u2 == Mod(s * ir, CurveN)
        Q == PointAdd(BaseMultiples[u1], PointMultiply(u2, R.P))
    IN  IF ~IsWithinCurveOrder(r) \/ ~IsWithinCurveOrder(s) THEN Thrown(UntypedError, TRUE)
        ELSE IF rec \notin 0..3 THEN Thrown(UntypedError, TRUE)
        ELSE IF radj >= FieldP THEN Thrown(UntypedError, TRUE)
        ELSE IF ~R.def THEN Thrown(UntypedError, TRUE)
        ELSE IF Q = ZeroPoint THEN Thrown(UntypedError, TRUE)
        ELSE Returned(ToRawBytes(Q, FALSE), TRUE)

\* ------------------------------------- packages/core/src/assertions

\* assertIsValidPrivateKey(method, privateKey, isValid): the error thrown, "" if
\* none; valid is what the predicate isValid answers for privateKey.
AssertIsValidPrivateKey(privateKey, valid) ==
    IF valid THEN "" ELSE "InvalidSecp256k1PrivateKeyError"

\* assertIsValidSecp256k1MessageHash(method, hash, isValid): the error thrown, ""
\* if none; valid is what the predicate isValid answers for hash.
AssertIsValidSecp256k1MessageHash(hash, valid) ==
    IF valid THEN "" ELSE "InvalidSecp256k1MessageHashError"

\* ------------------------------------------------------------ secp256k1.ts

SIGNATURE_LENGTH == 2 * KeyLen + 1

PRIVATE_KEY_MAX_VALUE == ToBytes(CurveN, KeyLen)

IsValidMessageHash(hash) == IsBuffer(hash) /\ Len(hash) = KeyLen

\* isValidPrivateKey with the upper bound taken as inclusive.
IsValidPrivateKeyInclusive(privateKey) ==
    /\ IsBuffer(privateKey)
    /\ Len(privateKey) = KeyLen
    /\ privateKey # ZERO_BUFFER(KeyLen)
    /\ BufferCompare(privateKey, PRIVATE_KEY_MAX_VALUE) <= 0

IsValidPrivateKey(privateKey) ==
    /\ IsBuffer(privateKey)
    /\ Len(privateKey) = KeyLen
    /\ privateKey # ZERO_BUFFER(KeyLen)
    /\ BufferCompare(privateKey, PRIVATE_KEY_MAX_VALUE) < 0

\* derivePublicKey handing the key to the library without asserting it first.
DerivePublicKeyUnasserted(privateKey, isCompressedArg) ==
    GetPublicKey(privateKey, isCompressedArg # "false")

\* derivePublicKey with the default of isCompressed taken as false.
DerivePublicKeyDefaultFalse(privateKey, isCompressedArg) ==
    LET e == AssertIsValidPrivateKey(privateKey, IsValidPrivateKey(privateKey))
    IN  IF e # "" THEN Thrown(e, FALSE)
        ELSE GetPublicKey(privateKey, isCompressedArg = "true")

\* isCompressedArg: "true", "false", or "omitted" (the parameter's default, true).
DerivePublicKey(privateKey, isCompressedArg) ==
    LET isCompressed == IF isCompressedArg = "omitted" THEN TRUE ELSE isCompressedArg = "true"
        e == AssertIsValidPrivateKey(privateKey, IsValidPrivateKey(privateKey))
    IN  IF e # "" THEN Thrown(e, FALSE)
        ELSE GetPublicKey(privateKey, isCompressed)

\* sign with s written before r.
SignSwapped(messageHash, privateKey) ==
    LET e1 == AssertIsValidSecp256k1MessageHash(messageHash, IsValidMessageHash(messageHash))
        e2 == AssertIsValidPrivateKey(privateKey, IsValidPrivateKey(privateKey))
    IN  IF e1 # "" THEN Thrown(e1, FALSE)
        ELSE IF e2 # "" THEN Thrown(e2, FALSE)
        ELSE LET bytes[sig \in LibSignatures] ==
                     ToBytes(sig.s, KeyLen) \o ToBytes(sig.r, KeyLen) \o <<sig.recovery>>
             IN  Returned(bytes[LibSign(messageHash, privateKey)], TRUE)

\* sign asserting the private key before the message hash.
SignKeyFirst(messageHash, privateKey) ==
    LET e1 == AssertIsValidSecp256k1MessageHash(messageHash, IsValidMessageHash(messageHash))
        e2 == AssertIsValidPrivateKey(privateKey, IsValidPrivateKey(privateKey))
    IN  IF e2 # "" THEN Thrown(e2, FALSE)
        ELSE IF e1 # "" THEN Thrown(e1, FALSE)
        ELSE LET bytes[sig \in LibSignatures] ==
                     ToBytes(sig.r, KeyLen) \o ToBytes(sig.s, KeyLen) \o <<sig.recovery>>
             IN  Returned(bytes[LibSign(messageHash, privateKey)], TRUE)

\* The least number of bytes that hold v: BN.toArray('be') with no length.
MinimalBytes(v) ==
    LET len == CHOOSE l \in 1..(KeyLen + 1) : v < 256 ^ l /\ (l = 1 \/ v >= 256 ^ (l - 1))
    IN  ToBytes(v, len)

\* sign writing r and s without padding them to the width of a scalar.
SignUnpadded(messageHash, privateKey) ==
    LET e1 == AssertIsValidSecp256k1MessageHash(messageHash, IsValidMessageHash(messageHash))
        e2 == AssertIsValidPrivateKey(privateKey, IsValidPrivateKey(privateKey))
    IN  IF e1 # "" THEN Thrown(e1, FALSE)
        ELSE IF e2 # "" THEN Thrown(e2, FALSE)
        ELSE LET bytes[sig \in LibSignatures] ==
                     MinimalBytes(sig.r) \o MinimalBytes(sig.s) \o <<sig.recovery>>
             IN  Returned(bytes[LibSign(messageHash, privateKey)], TRUE)

\* recover checking the length of the signature before the message hash.
RecoverSignatureFirst(messageHash, sig) ==
    LET e1 == AssertIsValidSecp256k1MessageHash(messageHash, IsValidMessageHash(messageHash))
        recovery == sig[2 * KeyLen + 1]
    IN  IF ~(IsBuffer(sig) /\ Len(sig) = SIGNATURE_LENGTH)
        THEN Thrown("InvalidSecp256k1SignatureError", FALSE)
        ELSE IF e1 # "" THEN Thrown(e1, FALSE)
        ELSE IF ~(recovery = 0 \/ recovery = 1)
             THEN Thrown("InvalidSecp256k1SignatureRecoveryError", FALSE)
        ELSE LibRecover(Slice(sig, 0, 2 * KeyLen), recovery, messageHash)

Sign(messageHash, privateKey) ==
    LET e1 == AssertIsValidSecp256k1MessageHash(messageHash, IsValidMessageHash(messageHash))
        e2 == AssertIsValidPrivateKey(privateKey, IsValidPrivateKey(privateKey))
    IN  IF e1 # "" THEN Thrown(e1, FALSE)
        ELSE IF e2 # "" THEN Thrown(e2, FALSE)
        ELSE LET bytes[sig \in LibSignatures] ==
                     ToBytes(sig.r, KeyLen) \o ToBytes(sig.s, KeyLen) \o <<sig.recovery>>
             IN  Returned(bytes[LibSign(messageHash, privateKey)], TRUE)

Recover(messageHash, sig) ==
    LET e1 == AssertIsValidSecp256k1MessageHash(messageHash, IsValidMessageHash(messageHash))
        recovery == sig[2 * KeyLen + 1]
    IN  IF e1 # "" THEN Thrown(e1, FALSE)
        ELSE IF ~(IsBuffer(sig) /\ Len(sig) = SIGNATURE_LENGTH)
             THEN Thrown("InvalidSecp256k1SignatureError", FALSE)
        ELSE IF ~(recovery = 0 \/ recovery = 1)
             THEN Thrown("InvalidSecp256k1SignatureRecoveryError", FALSE)
        ELSE LibRecover(Slice(sig, 0, 2 * KeyLen), recovery, messageHash)

\* compressPublicKey taking the parity from the first byte of y.
CompressPublicKeyFirstByte(publicKey) ==
    IF publicKey # <<>> /\ publicKey[1] = 4
    THEN LET x == Slice(publicKey, 1, KeyLen + 1)
             y == Slice(publicKey, KeyLen + 1, 2 * KeyLen + 1)
             isYOdd == IF y = <<>> THEN 0 ELSE y[1] % 2
         IN  Returned(<<2 + isYOdd>> \o x, FALSE)
    ELSE Returned(publicKey, FALSE)

CompressPublicKey(publicKey) ==
    IF publicKey # <<>> /\ publicKey[1] = 4
    THEN LET x == Slice(publicKey, 1, KeyLen + 1)
             y == Slice(publicKey, KeyLen + 1, 2 * KeyLen + 1)
             isYOdd == IF y = <<>> THEN 0 ELSE y[Len(y)] % 2
         IN  Returned(<<2 + isYOdd>> \o x, FALSE)
    ELSE Returned(publicKey, FALSE)

\* randomBytes(bytesLength): whatever the host's random source delivers.
RandomBytes(delivered) == Returned(delivered, FALSE)

\* The big-endian integer a buffer holds, modulo m.
BEValueMod(b, m) ==
    LET val[i \in 0..Len(b)] == IF i = 0 THEN 0 ELSE (256 * val[i - 1] + b[i]) % m
    IN  val[Len(b)]

\* getMinHashLength: the bytes randomPrivateKey draws, half as many again as a
\* scalar has (48 for 32).
MinHashLength == KeyLen + (KeyLen + 1) \div 2

\* _secp256k1.utils.randomPrivateKey(): mapHashToField of the bytes the random
\* source delivers: their integer modulo n - 1, plus 1, as a scalar's bytes.
RandomPrivateKey(delivered) == ToBytes(BEValueMod(delivered, CurveN - 1) + 1, KeyLen)

\* generatePrivateKey returning the first bytes drawn as they are.
GeneratePrivateKeyUnreduced(delivered) == Returned(Slice(delivered, 0, KeyLen), TRUE)

GeneratePrivateKey(delivered) == Returned(RandomPrivateKey(delivered), TRUE)

\* ------------------------------------------------------------- the inputs

KeyInputs ==
    {ToBytes(v, KeyLen) :
        v \in {0, 1, 2, CurveN - 1, CurveN, 256 ^ (KeyLen - 1), 256 ^ KeyLen - 1}}
        \cup {ToBytes(1, KeyLen - 1), ToBytes(1, KeyLen + 1), Append(ToBytes(1, KeyLen), 0)}

HashInputs ==
    {ToBytes(v, KeyLen) : v \in {1, CurveN + 4, 256 ^ KeyLen - 1}}
        \cup {ToBytes(1, KeyLen - 1), ToBytes(1, KeyLen + 1)}

\* The hashes given to recover: one of each length, and a second 32-byte one.
RecoverHashInputs ==
    {ToBytes(1, KeyLen), ToBytes(CurveN + 4, KeyLen), ToBytes(1, KeyLen - 1),
     ToBytes(1, KeyLen + 1)}

\* r and s of a crafted signature: zero, an abscissa of the curve (2), a field
\* element that is none (3), one at or above the field prime (CurveN - 1), the
\* group order, and the greatest value of the width; the recovery bytes are 0,
\* 1, 2 and 255.
SigInputs ==
    {ToBytes(r, KeyLen) \o ToBytes(2, KeyLen) \o <<v>> :
        r \in {0, 2, 3, CurveN - 1, CurveN, 256 ^ KeyLen - 1}, v \in {0, 1}}
        \cup {ToBytes(2, KeyLen) \o ToBytes(s, KeyLen) \o <<v>> :
                  s \in {0, CurveN}, v \in {0, 1, 2, 255}}
        \cup {ToBytes(2, KeyLen) \o ToBytes(2, KeyLen),
              ToBytes(2, KeyLen) \o ToBytes(2, KeyLen) \o <<0, 0>>,
              ToBytes(2, KeyLen) \o ToBytes(2, KeyLen) \o <<0, 7>>}

\* Public keys given to compressPublicKey: encodings of curve points in both
\* forms, and malformed ones.
PublicKeyInputs ==
    UNION {{ToRawBytes(BaseMultiples[d], c) : c \in BOOLEAN} : d \in {1, 2, CurveN - 1}}
        \cup {<<>>, <<4>>, <<0>>,
              <<4>> \o ToBytes(2, KeyLen),
              <<4>> \o ToBytes(2, KeyLen) \o ToBytes(23, KeyLen),
              <<4>> \o ToBytes(3, KeyLen) \o ToBytes(1, KeyLen),
              <<4>> \o ToBytes(2, KeyLen) \o ToBytes(22, KeyLen) \o <<9>>,
              <<2>> \o ToBytes(3, KeyLen),
              <<3>> \o ToBytes(2, KeyLen) \o <<0>>,
              <<5>> \o ToBytes(2, KeyLen),
              <<2>> \o ToBytes(2, KeyLen) \o ToBytes(22, KeyLen)}

\* -------------------------------------------------------- the state machine
\* op, args, result: the last call of the module, its arguments and outcome.
\* memo: a signature the caller has kept, with the hash and key it was made from
\*       and what the random source had delivered last when it was made.
\* entropy: what randomBytes returned last.

NoArgs == [h |-> <<>>, k |-> <<>>, sig |-> <<>>, pk |-> <<>>, flag |-> ""]

NoMemo == [set |-> FALSE, h |-> <<>>, k |-> <<>>, sig |-> <<>>, at |-> <<>>]

Init ==
    /\ op = "none"
    /\ args = NoArgs
    /\ result = Returned(<<>>, FALSE)
    /\ memo = NoMemo
    /\ entropy = ZERO_BUFFER(KeyLen)

CallIsValidPrivateKey ==
    \E k \in KeyInputs :
        /\ op' = "isValidPrivateKey"
        /\ args' = [NoArgs EXCEPT !.k = k]
        /\ result' = ReturnedBool(IsValidPrivateKey(k))
        /\ UNCHANGED <<memo, entropy>>

CallDerivePublicKey ==
    \E k \in KeyInputs, f \in {"omitted", "true", "false"} :
        /\ op' = "derivePublicKey"
        /\ args' = [NoArgs EXCEPT !.k = k, !.flag = f]
        /\ result' = DerivePublicKey(k, f)
        /\ UNCHANGED <<memo, entropy>>

\* The caller keeps the first signature it gets, or not.
CallSign ==
    \E h \in HashInputs, k \in KeyInputs, keep \in BOOLEAN :
        /\ op' = "sign"
        /\ args' = [NoArgs EXCEPT !.h = h, !.k = k]
        /\ result' = Sign(h, k)
        /\ memo' = IF keep /\ ~memo.set /\ result'.ok
                   THEN [set |-> TRUE, h |-> h, k |-> k, sig |-> result'.val, at |-> entropy]
                   ELSE memo
        /\ UNCHANGED entropy

\* A signature from anywhere, or the one the caller kept.
CallRecover ==
    \E h \in RecoverHashInputs \cup {memo.h}, sig \in SigInputs \cup {memo.sig} :
        /\ op' = "recover"
        /\ args' = [NoArgs EXCEPT !.h = h, !.sig = sig]
        /\ result' = Recover(h, sig)
        /\ UNCHANGED <<memo, entropy>>

CallCompressPublicKey ==
    \E pk \in PublicKeyInputs :
        /\ op' = "compressPublicKey"
        /\ args' = [NoArgs EXCEPT !.pk = pk]
        /\ result' = CompressPublicKey(pk)
        /\ UNCHANGED <<memo, entropy>>

CallRandomBytes ==
    \E delivered \in {ZERO_BUFFER(KeyLen), ToBytes(1, KeyLen)} :
        /\ op' = "randomBytes"
        /\ args' = NoArgs
        /\ result' = RandomBytes(delivered)
        /\ entropy' = delivered
        /\ UNCHANGED memo

\* The random source delivers to generatePrivateKey all zeros, all ones, or an
\* integer around the group order.
CallGeneratePrivateKey ==
    \E delivered \in {ToBytes(v, MinHashLength) : v \in {0, CurveN - 2, CurveN - 1, CurveN}}
                         \cup {[i \in 1..MinHashLength |-> 255]} :
        /\ op' = "generatePrivateKey"
        /\ args' = NoArgs
        /\ result' = GeneratePrivateKey(delivered)
        /\ UNCHANGED <<memo, entropy>>

Next ==
    \/ CallIsValidPrivateKey
    \/ CallGeneratePrivateKey
    \/ CallDerivePublicKey
    \/ CallSign
    \/ CallRecover
    \/ CallCompressPublicKey
    \/ CallRandomBytes

Spec == Init /\ [][Next]_vars

\* ----------------------------------------------------------- the properties

\* A buffer of the width of a scalar that is not all zeros and, read as a
\* big-endian integer, is below the group order.
IsPrivateScalar(k) ==
    /\ Len(k) = KeyLen
    /\ \E i \in 1..Len(k) : k[i] # 0
    /\ BEValue(k) < CurveN

\* (r, s) verifies as an ECDSA signature of the hash scalar m under d * BASE.
EcdsaVerifies(r, s, m, d) ==
    LET is == Inv(s, CurveN)
        X == PointAdd(BaseMultiples[Mod(m * is, CurveN)],
                      PointMultiply(Mod(r * is, CurveN), BaseMultiples[d]))
    IN  X # ZeroPoint /\ Mod(X[1], CurveN) = r

\* C1: isValidPrivateKey(k) is true exactly when k is 32 bytes long, is not all
\* zeros, and is below the curve order n as a big-endian integer: false for the
\* zero key, for n itself and for a key of another length, true for 1 and n - 1.
C1_IsValidPrivateKeyExact ==
    op = "isValidPrivateKey" =>
        /\ result.ok
        /\ result.bool = IsPrivateScalar(args.k)

C1_Witness ==
    /\ op = "isValidPrivateKey"
    /\ args.k = ToBytes(CurveN - 1, KeyLen)
    /\ result.bool

\* C2: for every valid private key k and every 32-byte hash h, sign(h, k)
\* succeeds, and recover(h, sign(h, k)) succeeds and returns the uncompressed
\* public key derivePublicKey(k, false); so does a later call of recover on a
\* signature the caller kept.
C2_RecoverOfSign ==
    /\ (op = "sign" /\ IsPrivateScalar(args.k) /\ Len(args.h) = KeyLen) =>
           /\ result.ok
           /\ DerivePublicKey(args.k, "false").ok
           /\ Recover(args.h, result.val).ok
           /\ Recover(args.h, result.val).val = DerivePublicKey(args.k, "false").val
    /\ (op = "recover" /\ memo.set /\ args.h = memo.h /\ args.sig = memo.sig) =>
           /\ result.ok
           /\ result.val = DerivePublicKey(memo.k, "false").val

C2_Witness ==
    /\ op = "recover"
    /\ memo.set
    /\ memo.k = ToBytes(CurveN - 1, KeyLen)
    /\ args.h = memo.h
    /\ args.sig = memo.sig
    /\ result.ok
    /\ result.val = ToRawBytes(BaseMultiples[CurveN - 1], FALSE)

\* C3: sign(h, k) fails with the invalid-message-hash error when h is not 32
\* bytes long, whatever k is; when h is 32 bytes long and k does not satisfy
\* isValidPrivateKey it fails with the invalid-private-key error; in both cases
\* it returns no signature.
C3_SignErrors ==
    op = "sign" =>
        /\ Len(args.h) # KeyLen =>
               /\ ~result.ok
               /\ result.err = "InvalidSecp256k1MessageHashError"
               /\ result.val = <<>>
        /\ (Len(args.h) = KeyLen /\ ~IsValidPrivateKey(args.k)) =>
               /\ ~result.ok
               /\ result.err = "InvalidSecp256k1PrivateKeyError"
               /\ result.val = <<>>

C3_Witness ==
    /\ op = "sign"
    /\ Len(args.h) # KeyLen
    /\ ~IsValidPrivateKey(args.k)
    /\ result.err = "InvalidSecp256k1MessageHashError"

\* C4, as stated: recover(h, sig) fails with the message-hash error when h is not
\* 32 bytes long, with the invalid-signature error when sig is not exactly 65
\* bytes long, and with the invalid-signature-recovery error when sig is 65 bytes
\* long and its byte 64 is neither 0 nor 1; when it succeeds it returns a 65-byte
\* uncompressed public key.
C4_RecoverErrorsAsStated ==
    op = "recover" =>
        /\ Len(args.h) # KeyLen =>
               (~result.ok /\ result.err = "InvalidSecp256k1MessageHashError")
        /\ Len(args.sig) # 2 * KeyLen + 1 =>
               (~result.ok /\ result.err = "InvalidSecp256k1SignatureError")
        /\ (Len(args.sig) = 2 * KeyLen + 1 /\ args.sig[2 * KeyLen + 1] \notin {0, 1}) =>
               (~result.ok /\ result.err = "InvalidSecp256k1SignatureRecoveryError")
        /\ result.ok => (Len(result.val) = 2 * KeyLen + 1 /\ result.val[1] = 4)

\* C4, amended: recover(h, sig) fails with the message-hash error when h is not
\* 32 bytes long, whatever sig is; when h is 32 bytes long it fails with the
\* invalid-signature error if sig is not exactly 65 bytes long, and with the
\* invalid-signature-recovery error if sig is 65 bytes long and its byte 64 is
\* neither 0 nor 1; when it succeeds it returns a 65-byte uncompressed public key.
C4_RecoverErrorsInOrder ==
    op = "recover" =>
        /\ Len(args.h) # KeyLen =>
               (~result.ok /\ result.err = "InvalidSecp256k1MessageHashError")
        /\ (Len(args.h) = KeyLen /\ Len(args.sig) # 2 * KeyLen + 1) =>
               (~result.ok /\ result.err = "InvalidSecp256k1SignatureError")
        /\ (Len(args.h) = KeyLen /\ Len(args.sig) = 2 * KeyLen + 1
                /\ args.sig[2 * KeyLen + 1] \notin {0, 1}) =>
               (~result.ok /\ result.err = "InvalidSecp256k1SignatureRecoveryError")
        /\ result.ok => (Len(result.val) = 2 * KeyLen + 1 /\ result.val[1] = 4)

C4_Witness ==
    /\ op = "recover"
    /\ Len(args.h) # KeyLen
    /\ Len(args.sig) # 2 * KeyLen + 1
    /\ ~result.ok
    /\ result.err = "InvalidSecp256k1MessageHashError"

\* C5: every value sign returns is exactly 65 bytes long: the 32-byte big-endian
\* r, then the 32-byte big-endian s, then one recovery byte that is 0 or 1; r
\* and s are a signature of the hash under the key, and the value passes the
\* length check and the recovery-byte check of recover.
C5_SignatureLayout ==
    (op = "sign" /\ result.ok) =>
        LET sig == result.val
            r == BEValue(Slice(sig, 0, KeyLen))
            s == BEValue(Slice(sig, KeyLen, 2 * KeyLen))
        IN  /\ Len(sig) = 2 * KeyLen + 1
            /\ sig[2 * KeyLen + 1] \in {0, 1}
            /\ IsWithinCurveOrder(r)
            /\ IsWithinCurveOrder(s)
            /\ EcdsaVerifies(r, s, Bits2IntModN(args.h), BEValue(args.k))
            /\ Recover(args.h, sig).err \notin
                   {"InvalidSecp256k1SignatureError", "InvalidSecp256k1SignatureRecoveryError"}

C5_Witness ==
    /\ op = "sign"
    /\ result.ok
    /\ args.h = ToBytes(256 ^ KeyLen - 1, KeyLen)
    /\ Len(result.val) = 2 * KeyLen + 1
    /\ result.val[2 * KeyLen + 1] = 1

\* C6: recover never lets an untyped error of the curve library reach the
\* caller: it returns a public key or fails with one of the typed errors.
C6_RecoverNoUntypedError ==
    op = "recover" =>
        \/ result.ok /\ Len(result.val) = 2 * KeyLen + 1
        \/ ~result.ok /\ result.err \in TypedErrors

\* C7: derivePublicKey(k, flag) fails with the invalid-private-key error for
\* every k that is not a valid private key, for each value of the compression
\* flag, and does not reach the scalar multiplication of the library.
C7_DeriveRejectsInvalidKey ==
    (op = "derivePublicKey" /\ ~IsPrivateScalar(args.k)) =>
        /\ ~result.ok
        /\ result.err = "InvalidSecp256k1PrivateKeyError"
        /\ ~result.lib

C7_Witness ==
    /\ op = "derivePublicKey"
    /\ args.flag = "false"
    /\ args.k = ToBytes(CurveN, KeyLen)
    /\ result.err = "InvalidSecp256k1PrivateKeyError"
    /\ ~result.lib

\* C8: for a valid private key k, derivePublicKey(k) returns the 33-byte
\* compressed encoding (prefix 0x02 or 0x03), derivePublicKey(k, false) the
\* 65-byte uncompressed encoding (prefix 0x04), and both encode the same point
\* of the curve: the same x, and the prefix of the one the parity of the y of
\* the other.
C8_DeriveEncodings ==
    (op = "derivePublicKey" /\ IsPrivateScalar(args.k)) =>
        LET c == DerivePublicKey(args.k, "omitted")
            u == DerivePublicKey(args.k, "false")
            x == Slice(u.val, 1, KeyLen + 1)
            y == Slice(u.val, KeyLen + 1, 2 * KeyLen + 1)
        IN  /\ result = (IF args.flag = "false" THEN u ELSE c)
            /\ c.ok /\ Len(c.val) = KeyLen + 1 /\ c.val[1] \in {2, 3}
            /\ u.ok /\ Len(u.val) = 2 * KeyLen + 1 /\ u.val[1] = 4
            /\ Slice(c.val, 1, KeyLen + 1) = x
            /\ c.val[1] = 2 + (BEValue(y) % 2)
            /\ OnCurve(<<BEValue(x), BEValue(y)>>)

C8_Witness ==
    /\ op = "derivePublicKey"
    /\ args.flag = "omitted"
    /\ args.k = ToBytes(2, KeyLen)
    /\ result.ok
    /\ Len(result.val) = KeyLen + 1
    /\ result.val[1] \in {2, 3}

\* An encoding of a point of the curve, compressed or uncompressed.
IsPointEncoding(pk) ==
    \/ /\ Len(pk) = KeyLen + 1
       /\ pk[1] \in {2, 3}
       /\ LiftX(BEValue(Slice(pk, 1, KeyLen + 1)), pk[1] - 2).def
    \/ /\ Len(pk) = 2 * KeyLen + 1
       /\ pk[1] = 4
       /\ OnCurve(<<BEValue(Slice(pk, 1, KeyLen + 1)),
                    BEValue(Slice(pk, KeyLen + 1, 2 * KeyLen + 1))>>)

\* C9: compressPublicKey fails for every input that is neither a valid
\* compressed nor a valid uncompressed encoding of a point: it never returns
\* such an input unchanged and never builds a 33-byte value from a malformed
\* input that starts with 0x04.
C9_CompressRejectsInvalidEncoding ==
    (op = "compressPublicKey" /\ ~IsPointEncoding(args.pk)) => ~result.ok

\* C10: sign is deterministic: two calls with the same hash and the same key
\* return the same 65 bytes, whatever calls of the module are made in between.
C10_SignDeterministic ==
    (op = "sign" /\ memo.set /\ args.h = memo.h /\ args.k = memo.k) =>
        /\ result.ok
        /\ result.val = memo.sig

C10_Witness ==
    /\ op = "sign"
    /\ memo.set
    /\ args.h = memo.h
    /\ args.k = memo.k
    /\ entropy # memo.at
    /\ result.val = memo.sig

\* C11: generatePrivateKey returns in one step, and every key it returns is 32
\* bytes long and satisfies isValidPrivateKey (it is not zero and is below the
\* curve order), whatever the random source delivers.
C11_GeneratedKeyIsValid ==
    op = "generatePrivateKey" =>
        /\ result.ok
        /\ Len(result.val) = KeyLen
        /\ IsValidPrivateKey(result.val)
        /\ IsPrivateScalar(result.val)

C11_Witness ==
    /\ op = "generatePrivateKey"
    /\ result.ok
    /\ result.val = ToBytes(1, KeyLen)
    /\ IsValidPrivateKey(result.val)

\* =========================================================================
\* The value classes of packages/core/src/vcdm (Hex, HexInt, HexUInt, Address)
\* and the hashes of packages/core/src/hash, with the error interception of
\* packages/errors.  A string is a TLA+ string, read character by character;
\* a Uint8Array is a sequence of bytes.
\* =========================================================================

\* ---------------------------------------------------------- packages/errors

InvalidDataType(method, reason) ==
    [kind |-> "InvalidDataType", method |-> method, reason |-> reason]

InvalidOperation(method, reason) ==
    [kind |-> "InvalidOperation", method |-> method, reason |-> reason]

NoError == [kind |-> "", method |-> "", reason |-> ""]

NoValue == [cls |-> "", sign |-> 0, digits |-> ""]

\* The outcome of a call: a value returned or an error thrown.
Value(v) == [ok |-> TRUE, err |-> NoError, val |-> v]

Raised(e) == [ok |-> FALSE, err |-> e, val |-> NoValue]

\* errorHandler replacing every error it is given, an InvalidDataType too.
ErrorHandlerReplacing(subclassError, method, message) ==
    InvalidDataType(method, message)

\* errorHandler(subclassError, ...invalidDataTypeParams): the error it throws.
ErrorHandler(subclassError, method, message) ==
    IF subclassError.kind = "InvalidDataType"
    THEN subclassError
    ELSE InvalidDataType(method, message)

\* ErrorInterceptor(errorMessage) around a static method called methodName:
\* outcome is what the original method does.  The decorator's target is the
\* class itself, whose constructor.name is "Function".
ErrorInterceptor(errorMessage, methodName, outcome) ==
    IF outcome.ok THEN outcome
    ELSE Raised(ErrorHandler(outcome.err, "Function." \o methodName, errorMessage))

\* ------------------------------------------------ vcdm/Hex, vcdm/HexInt

NEGATIVE == -1

POSITIVE == 1

HexDigits == "0123456789abcdef"

CharAt(s, i) == SubSeq(s, i, i)

\* The value of a hexadecimal digit, upper or lower case; -1 for another character.
DigitValue(c) ==
    LET lower == {i \in 1..16 : CharAt(HexDigits, i) = c}
        upper == {i \in 1..6 : CharAt("ABCDEF", i) = c}
    IN  IF lower # {} THEN (CHOOSE i \in lower : TRUE) - 1
        ELSE IF upper # {} THEN (CHOOSE i \in upper : TRUE) + 9
        ELSE -1

\* String.prototype.toLowerCase on hexadecimal digits.
ToLowerCase(s) ==
    LET low[i \in 0..Len(s)] ==
            IF i = 0 THEN ""
            ELSE low[i - 1] \o (IF DigitValue(CharAt(s, i)) >= 0
                                THEN CharAt(HexDigits, DigitValue(CharAt(s, i)) + 1)
                                ELSE CharAt(s, i))
    IN  low[Len(s)]

\* bytesToHex: two lower case digits for each byte.
BytesToHex(b) ==
    LET hex[i \in 0..Len(b)] ==
            IF i = 0 THEN ""
            ELSE hex[i - 1] \o CharAt(HexDigits, (b[i] \div 16) + 1)
                            \o CharAt(HexDigits, (b[i] % 16) + 1)
    IN  hex[Len(b)]

\* hexToBytes of an even number of digits.
HexToBytes(digits) ==
    [i \in 1..(Len(digits) \div 2) |->
        16 * DigitValue(CharAt(digits, 2 * i - 1)) + DigitValue(CharAt(digits, 2 * i))]

\* Hex.of(exp) for a string: an optional '-', an optional '0x', then digits.
HexOfString(s) ==
    LET negative == Len(s) > 0 /\ CharAt(s, 1) = "-"
        unsigned == IF negative THEN Tail(s) ELSE s
        prefixed == Len(unsigned) >= 2 /\ ToLowerCase(SubSeq(unsigned, 1, 2)) = "0x"
        digits == IF prefixed THEN SubSeq(unsigned, 3, Len(unsigned)) ELSE unsigned
    IN  IF \A i \in 1..Len(digits) : DigitValue(CharAt(digits, i)) >= 0
        THEN Value([cls |-> "Hex", sign |-> IF negative THEN NEGATIVE ELSE POSITIVE,
                    digits |-> ToLowerCase(digits)])
        ELSE Raised(InvalidDataType("Hex.of", "not an hexadecimal expression"))

\* Hex.of(exp): exp a string, a Uint8Array or a Hex.
HexOf(exp) ==
    IF exp.t = "string" THEN HexOfString(exp.s)
    ELSE IF exp.t = "bytes"
    THEN Value([cls |-> "Hex", sign |-> POSITIVE, digits |-> BytesToHex(exp.b)])
    ELSE Value(exp.h)

\* HexInt.of(exp)
HexIntOf(exp) ==
    LET h == HexOf(exp)
    IN  IF h.ok THEN Value([h.val EXCEPT !.cls = "HexInt"]) ELSE h

\* ------------------------------------------- vcdm/HexUInt, vcdm/Address

\* HexUInt's constructor(hi): super(hi) when the sign of hi is positive.
HexUIntConstructor(hi, cls) ==
    IF hi.sign >= POSITIVE
    THEN Value([hi EXCEPT !.cls = cls])
    ELSE Raised(InvalidDataType("HexUInt.constructor", "not positive"))

\* HexUInt.of(exp), intercepted.
HexUIntOf(exp) ==
    LET hi == HexIntOf(exp)
    IN  ErrorInterceptor("not a valid hexadecimal unsigned integer expression", "of",
                         IF hi.ok THEN HexUIntConstructor(hi.val, "HexUInt") ELSE hi)

\* Address's constructor(hi): super(hi).
AddressConstructor(hi) == HexUIntConstructor(hi, "Address")

\* Address.of(exp), intercepted.
AddressOf(exp) ==
    LET hi == HexUIntOf(exp)
    IN  ErrorInterceptor("not a valid address expression", "of",
                         IF hi.ok THEN AddressConstructor(hi.val) ELSE hi)

\* Address.from(exp), intercepted.
AddressFrom(exp) ==
    LET hi == HexUIntOf(exp)
    IN  ErrorInterceptor("not a valid address expression", "from",
                         IF hi.ok THEN AddressConstructor(hi.val) ELSE hi)

\* Hex.alignToBytes: a leading 0 when the number of digits is odd.
AlignToBytes(digits) == IF Len(digits) % 2 = 1 THEN "0" \o digits ELSE digits

\* The bytes getter of a Hex.
BytesOf(hex) == HexToBytes(AlignToBytes(hex.digits))

\* Hex.toString()
HexToString(hex) == (IF hex.sign < 0 THEN "-0x" ELSE "0x") \o hex.digits

\* ------------------------------------------------- @noble/hashes, vcdm/Txt

\* A digest as wide as a scalar (32 bytes in the source) that depends on every
\* byte of the input and on its length: stands for the one-way function.
Digest(bytes, a, c) ==
    LET fold[i \in 0..Len(bytes)] ==
            IF i = 0 THEN 0 ELSE (31 * fold[i - 1] + bytes[i] + 1) % 251
    IN  ToBytes((a * fold[Len(bytes)] + c) % (256 ^ KeyLen), KeyLen)

\* nh_keccak_256(bytes): the digest of no bytes starts with a zero byte.
NhKeccak256(bytes) == Digest(bytes, 40503, 7)

\* nh_blake2b.create({dkLen: 32}).update(bytes).digest()
NhBlake2b(bytes) == Digest(bytes, 25173, 300)

TxtAlphabet == "!0Hfiox"

TxtCodes == <<33, 48, 72, 102, 105, 111, 120>>

\* Txt.of(text).bytes: the UTF-8 bytes of the text.
TxtBytes(text) ==
    [i \in 1..Len(text) |->
        TxtCodes[CHOOSE j \in 1..Len(TxtAlphabet) : CharAt(TxtAlphabet, j) = CharAt(text, i)]]

\* ------------------------------------------- hash/Keccak256, hash/Blake2b256

\* The digits of a number written without its leading zeros.
StripLeadingZeros(digits) ==
    LET nonzero == {i \in 1..Len(digits) : CharAt(digits, i) # "0"}
    IN  IF nonzero = {} THEN "0"
        ELSE SubSeq(digits, CHOOSE i \in nonzero : \A j \in nonzero : i <= j, Len(digits))

\* Keccak256.of taking the digits of the digest as those of a number.
Keccak256OfStripped(exp) ==
    LET input == HexUIntOf(exp)
        hash == NhKeccak256(BytesOf(input.val))
        digest == HexUIntOf([t |-> "bytes", b |-> hash])
    IN  IF ~input.ok \/ ~digest.ok
        THEN Raised(InvalidOperation("Keccak256.of", "hash error"))
        ELSE Value([cls |-> "Keccak256", sign |-> POSITIVE,
                    digits |-> StripLeadingZeros(digest.val.digits)])

\* Keccak256.of with no try and catch around its body.
Keccak256OfUncaught(exp) ==
    LET input == HexUIntOf(exp)
        hash == NhKeccak256(BytesOf(input.val))
        digest == HexUIntOf([t |-> "bytes", b |-> hash])
    IN  IF ~input.ok THEN input
        ELSE IF ~digest.ok THEN digest
        ELSE Value([cls |-> "Keccak256", sign |-> POSITIVE, digits |-> digest.val.digits])

\* Keccak256.of(exp): whatever is thrown while hashing is replaced.
Keccak256Of(exp) ==
    LET input == HexUIntOf(exp)
        hash == NhKeccak256(BytesOf(input.val))
        digest == HexUIntOf([t |-> "bytes", b |-> hash])
    IN  IF ~input.ok \/ ~digest.ok
        THEN Raised(InvalidOperation("Keccak256.of", "hash error"))
        ELSE Value([cls |-> "Keccak256", sign |-> POSITIVE, digits |-> digest.val.digits])

\* Blake2b256.of(exp): whatever is thrown while hashing is replaced.
Blake2b256Of(exp) ==
    LET input == HexUIntOf(exp)
        hash == NhBlake2b(BytesOf(input.val))
        digest == HexUIntOf([t |-> "bytes", b |-> hash])
    IN  IF ~input.ok \/ ~digest.ok
        THEN Raised(InvalidOperation("Blake2b256.of", "hash error"))
        ELSE Value([cls |-> "Blake2b256", sign |-> POSITIVE, digits |-> digest.val.digits])

\* What a shim returns: the bytes of the hash, or its string.
ShimResult(hash, returnType) ==
    IF ~hash.ok THEN hash
    ELSE IF returnType = "buffer"
    THEN Value([cls |-> "Uint8Array", b |-> BytesOf(hash.val)])
    ELSE Value([cls |-> "string", s |-> HexToString(hash.val)])

\* keccak256 giving its text to Keccak256.of as an expression.
Keccak256ShimParsing(hex, returnTypeArg) ==
    ShimResult(Keccak256Of([t |-> "string", s |-> hex]),
               IF returnTypeArg = "omitted" THEN "buffer" ELSE returnTypeArg)

\* keccak256(hex, returnType = 'buffer'); returnTypeArg is "omitted", "buffer" or "hex".
Keccak256Shim(hex, returnTypeArg) ==
    ShimResult(Keccak256Of([t |-> "bytes", b |-> TxtBytes(hex)]),
               IF returnTypeArg = "omitted" THEN "buffer" ELSE returnTypeArg)

\* blake2b256(hex, returnType = 'buffer')
Blake2b256Shim(hex, returnTypeArg) ==
    ShimResult(Blake2b256Of([t |-> "bytes", b |-> TxtBytes(hex)]),
               IF returnTypeArg = "omitted" THEN "buffer" ELSE returnTypeArg)

\* ------------------------------------------------------------- the inputs

StringExp(s) == [t |-> "string", s |-> s]

BytesExp(b) == [t |-> "bytes", b |-> b]

HexExp(sign, digits) == [t |-> "hex", h |-> [cls |-> "Hex", sign |-> sign, digits |-> digits]]

\* Expressions given to the of and from methods: addresses in lower, mixed and
\* upper case, one with no prefix, one negative, one of 21 bytes, shorter
\* numbers, a negative one, a string that is no hexadecimal expression, byte
\* arrays and Hex objects.
ExpInputs ==
    { StringExp("0xcfb79a9c950b78e14c43efa621ebcf9660dbe01f"),
      StringExp("0xCfb79a9c950b78E14c43efa621ebcf9660dbe01F"),
      StringExp("0xCFB79A9C950B78E14C43EFA621EBCF9660DBE01F"),
      StringExp("cfb79a9c950b78e14c43efa621ebcf9660dbe01f"),
      StringExp("-0xcfb79a9c950b78e14c43efa621ebcf9660dbe01f"),
      StringExp("0xcfb79a9c950b78e14c43efa621ebcf9660dbe01f00"),
      StringExp("0xcaffee"), StringExp("-0xcaffee"), StringExp("0xfoe"),
      StringExp("0x0"), StringExp("0x"),
      BytesExp(<<>>), BytesExp(<<255>>), BytesExp(<<0, 255>>),
      BytesExp([i \in 1..20 |-> i]),
      HexExp(POSITIVE, "ff"), HexExp(NEGATIVE, "ff") }

TextInputs == {"", "0xff", "ff", "Hi!", "0xfoo", "0x0"}

ReturnTypeInputs == {"omitted", "buffer", "hex"}

\* --------------------------------------------------------- the state machine
\* op, args, result: the last call, its arguments and its outcome.

InitVcdm ==
    /\ op = "none"
    /\ args = [exp |-> BytesExp(<<>>)]
    /\ result = Value(NoValue)
    /\ memo = NoMemo
    /\ entropy = ZERO_BUFFER(KeyLen)

CallAddressOf ==
    \E exp \in ExpInputs :
        /\ op' = "Address.of"
        /\ args' = [exp |-> exp]
        /\ result' = AddressOf(exp)
        /\ UNCHANGED <<memo, entropy>>

CallAddressFrom ==
    \E exp \in ExpInputs :
        /\ op' = "Address.from"
        /\ args' = [exp |-> exp]
        /\ result' = AddressFrom(exp)
        /\ UNCHANGED <<memo, entropy>>

CallHexUIntOf ==
    \E exp \in ExpInputs :
        /\ op' = "HexUInt.of"
        /\ args' = [exp |-> exp]
        /\ result' = HexUIntOf(exp)
        /\ UNCHANGED <<memo, entropy>>

CallKeccak256Of ==
    \E exp \in ExpInputs :
        /\ op' = "Keccak256.of"
        /\ args' = [exp |-> exp]
        /\ result' = Keccak256Of(exp)
        /\ UNCHANGED <<memo, entropy>>

CallBlake2b256Of ==
    \E exp \in ExpInputs :
        /\ op' = "Blake2b256.of"
        /\ args' = [exp |-> exp]
        /\ result' = Blake2b256Of(exp)
        /\ UNCHANGED <<memo, entropy>>

CallKeccak256Shim ==
    \E text \in TextInputs, returnType \in ReturnTypeInputs :
        /\ op' = "keccak256"
        /\ args' = [text |-> text, returnType |-> returnType]
        /\ result' = Keccak256Shim(text, returnType)
        /\ UNCHANGED <<memo, entropy>>

CallBlake2b256Shim ==
    \E text \in TextInputs, returnType \in ReturnTypeInputs :
        /\ op' = "blake2b256"
        /\ args' = [text |-> text, returnType |-> returnType]
        /\ result' = Blake2b256Shim(text, returnType)
        /\ UNCHANGED <<memo, entropy>>

\* A static method called methodName of the class cls, decorated with
\* ErrorInterceptor(message), whose original method ends in original.
CallIntercepted ==
    \E cls \in {"Address", "HexUInt"}, methodName \in {"of", "from"},
       message \in {"not a valid address expression"} :
      \E original \in {Value([cls |-> cls, sign |-> POSITIVE, digits |-> "ff"]),
                     Raised(InvalidDataType("HexUInt.constructor", "not positive")),
                     Raised(InvalidOperation("Keccak256.of", "hash error")),
                     Raised([kind |-> "TypeError", method |-> "", reason |-> ""])} :
        /\ op' = "intercepted"
        /\ args' = [cls |-> cls, methodName |-> methodName, message |-> message,
                    original |-> original]
        /\ result' = ErrorInterceptor(message, methodName, original)
        /\ UNCHANGED <<memo, entropy>>

NextVcdm ==
    \/ CallAddressOf
    \/ CallIntercepted
    \/ CallAddressFrom
    \/ CallHexUIntOf
    \/ CallKeccak256Of
    \/ CallBlake2b256Of
    \/ CallKeccak256Shim
    \/ CallBlake2b256Shim

SpecVcdm == InitVcdm /\ [][NextVcdm]_vars

\* ----------------------------------------------------------- the properties

\* The digits an expression is written with, its sign and prefix left out.
WrittenDigits(exp) ==
    IF exp.t = "string"
    THEN LET unsigned == IF Len(exp.s) > 0 /\ CharAt(exp.s, 1) = "-" THEN Tail(exp.s) ELSE exp.s
         IN  IF Len(unsigned) >= 2 /\ SubSeq(unsigned, 1, 2) = "0x"
             THEN SubSeq(unsigned, 3, Len(unsigned)) ELSE unsigned
    ELSE IF exp.t = "bytes" THEN BytesToHex(exp.b)
    ELSE exp.h.digits

IsHexExpression(exp) ==
    \A i \in 1..Len(WrittenDigits(exp)) : DigitValue(CharAt(WrittenDigits(exp), i)) >= 0

IsNegativeExpression(exp) ==
    /\ IsHexExpression(exp)
    /\ \/ exp.t = "string" /\ Len(exp.s) > 0 /\ CharAt(exp.s, 1) = "-"
       \/ exp.t = "hex" /\ exp.h.sign < 0

\* An address expression: not negative, 20 bytes written as 40 hexadecimal digits.
IsAddressExpression(exp) ==
    /\ IsHexExpression(exp)
    /\ ~IsNegativeExpression(exp)
    /\ Len(WrittenDigits(exp)) = 2 * 20

\* C12: Address.of(exp) throws InvalidDataType for every expression that is not a
\* valid address, a negative one such as '-0xcaffee' and one that is not 20
\* bytes long such as '0xcaffee'; it returns an Address for an expression of 40
\* hexadecimal digits in lower, upper or mixed case.
C12_AddressOfRejectsNonAddress ==
    op = "Address.of" =>
        IF IsAddressExpression(args.exp)
        THEN result.ok /\ result.val.cls = "Address"
        ELSE ~result.ok /\ result.err.kind = "InvalidDataType"

\* C13: HexUInt.of(exp) for a negative exp throws the InvalidDataType of
\* HexUInt.constructor, with reason 'not positive'; the interceptors around
\* HexUInt.of, Address.of and Address.from pass it on unchanged and do not put
\* their own 'not a valid ... expression' error in its place.
C13_NegativePassesThrough ==
    (op \in {"HexUInt.of", "Address.of", "Address.from"} /\ IsNegativeExpression(args.exp)) =>
        /\ ~result.ok
        /\ result.err = InvalidDataType("HexUInt.constructor", "not positive")

C13_Witness ==
    /\ op = "Address.from"
    /\ args.exp = StringExp("-0xcaffee")
    /\ ~result.ok
    /\ result.err.method = "HexUInt.constructor"
    /\ result.err.reason = "not positive"

\* C14: every digest Blake2b256.of and Keccak256.of return, and the bytes the
\* blake2b256 and keccak256 shims return, is exactly 32 bytes long, also when
\* it starts with zero bytes.
C14_DigestWidth ==
    /\ (op \in {"Keccak256.of", "Blake2b256.of"} /\ result.ok) =>
           /\ Len(result.val.digits) = 2 * KeyLen
           /\ Len(BytesOf(result.val)) = KeyLen
    /\ (op \in {"keccak256", "blake2b256"} /\ result.ok) =>
           IF result.val.cls = "Uint8Array"
           THEN Len(result.val.b) = KeyLen
           ELSE Len(result.val.s) = 2 + 2 * KeyLen

C14_Witness ==
    /\ op = "Keccak256.of"
    /\ args.exp = BytesExp(<<>>)
    /\ result.ok
    /\ BytesOf(result.val)[1] = 0
    /\ Len(BytesOf(result.val)) = KeyLen

\* C15: Blake2b256.of(exp) and Keccak256.of(exp) throw InvalidOperation, and no
\* other kind of error, whenever exp is no valid unsigned hexadecimal
\* expression: the InvalidDataType of the conversion is replaced, not passed on.
C15_HashErrorsAreInvalidOperation ==
    op \in {"Keccak256.of", "Blake2b256.of"} =>
        /\ (~IsHexExpression(args.exp) \/ IsNegativeExpression(args.exp)) =>
               (~result.ok /\ result.err.kind = "InvalidOperation")
        /\ ~result.ok => result.err.kind = "InvalidOperation"

C15_Witness ==
    /\ op = "Blake2b256.of"
    /\ args.exp = StringExp("0xfoe")
    /\ ~result.ok
    /\ result.err = InvalidOperation("Blake2b256.of", "hash error")

\* C16: blake2b256(text, returnType) and keccak256(text, returnType) hash the
\* bytes of the text, not the text read as hexadecimal: with returnType omitted
\* or 'buffer' they return the bytes of the digest, with 'hex' its lower case
\* string after '0x', and both are the value of Blake2b256.of / Keccak256.of of
\* the bytes of the text.
C16_ShimsHashTextBytes ==
    op \in {"keccak256", "blake2b256"} =>
        LET bytes == TxtBytes(args.text)
            digest == IF op = "keccak256" THEN NhKeccak256(bytes) ELSE NhBlake2b(bytes)
            hash == IF op = "keccak256" THEN Keccak256Of(BytesExp(bytes))
                    ELSE Blake2b256Of(BytesExp(bytes))
        IN  /\ result.ok
            /\ hash.ok
            /\ BytesOf(hash.val) = digest
            /\ IF args.returnType = "hex"
               THEN /\ result.val.cls = "string"
                    /\ result.val.s = "0x" \o BytesToHex(digest)
                    /\ result.val.s = HexToString(hash.val)
               ELSE /\ result.val.cls = "Uint8Array"
                    /\ result.val.b = digest

C16_Witness ==
    /\ op = "blake2b256"
    /\ args.text = "0xff"
    /\ args.returnType = "hex"
    /\ result.ok
    /\ result.val.s = "0x" \o BytesToHex(NhBlake2b(<<48, 120, 102, 102>>))
    /\ result.val.s # "0x" \o BytesToHex(NhBlake2b(<<255>>))

\* =========================================================================
\* The hierarchical key tree of packages/core/src/hdnode, as section 4.3 of
\* the specification describes it.  A chain code is as wide as a scalar; a
\* child index is one byte wide where the source has four, hardened when its
\* high bit is set; a node is a record of privateKey (NullKey when the node has
\* none), publicKey (compressed) and chainCode.  As for the nonce of a
\* signature, an event that has a probability of about 2^-128 on secp256k1 (a
\* left half of the HMAC that is zero or not below the group order, a child
\* scalar that is zero) is taken as not occurring: the function that stands
\* for the HMAC gives none.
\* =========================================================================

\* First hardened index: 2^31 in the source.
HARDENED_OFFSET == 128

\* privateKey null
NullKey == <<>>

NoNode == [privateKey |-> NullKey, publicKey |-> <<>>, chainCode |-> <<>>]

\* The point a compressed public key encodes.
PointOfPublicKey(publicKey) ==
    LiftX(BEValue(Slice(publicKey, 1, KeyLen + 1)), publicKey[1] - 2).P

\* The scalar whose multiple of the base point a compressed public key encodes.
ScalarOfPublicKey(publicKey) ==
    CHOOSE d \in 1..(CurveN - 1) : ToRawBytes(BaseMultiples[d], TRUE) = publicKey

\* The private scalar of a node, held by the node or not.
ScalarOfNode(node) ==
    IF node.privateKey # NullKey THEN BEValue(node.privateKey)
    ELSE ScalarOfPublicKey(node.publicKey)

\* A number that depends on every byte of key and of data and on their lengths.
HmacFold(key, data) ==
    LET fold[i \in 0..(Len(key) + Len(data))] ==
            IF i = 0 THEN Len(key)
            ELSE (31 * fold[i - 1] + (key \o data)[i] + 1) % 4093
    IN  fold[Len(key) + Len(data)]

\* The left half of HMAC-SHA512(key, data) as a number, a function of key and
\* data: a valid scalar that is not the negative of the scalar avoid, which
\* data encodes.
HmacLeftFrom(fold, avoid) ==
    IF 1 + (fold % (CurveN - 2)) >= CurveN - avoid
    THEN 2 + (fold % (CurveN - 2))
    ELSE 1 + (fold % (CurveN - 2))

HmacLeft(key, data, avoid) == HmacLeftFrom(40503 * HmacFold(key, data) + 7, avoid)

\* The right half of HMAC-SHA512(key, data).
HmacRight(key, data) ==
    ToBytes((25173 * HmacFold(key, data) + 300) % (256 ^ KeyLen), KeyLen)

\* A public key is a valid encoding of a point, compressed.
IsCompressedPoint(publicKey) ==
    /\ IsBuffer(publicKey)
    /\ Len(publicKey) = KeyLen + 1
    /\ publicKey[1] \in {2, 3}
    /\ LiftX(BEValue(Slice(publicKey, 1, KeyLen + 1)), publicKey[1] - 2).def

\* The outcome of a call on the tree: the node returned, or the error thrown;
\* parent is the node the call was made on, as it is after the call.
NodeReturnedInPlace(node, parent) == [ok |-> TRUE, err |-> "", node |-> node, parent |-> node]

NodeReturned(node, parent) == [ok |-> TRUE, err |-> "", node |-> node, parent |-> parent]

NodeThrown(e, parent) == [ok |-> FALSE, err |-> e, node |-> NoNode, parent |-> parent]

\* A node that holds privateKey, with its public key left uncompressed.
PrivateNodeUncompressed(privateKey, chainCode) ==
    [privateKey |-> privateKey, publicKey |-> DerivePublicKey(privateKey, "false").val,
     chainCode |-> chainCode]

\* A node that holds privateKey.
PrivateNode(privateKey, chainCode) ==
    [privateKey |-> privateKey, publicKey |-> DerivePublicKey(privateKey, "omitted").val,
     chainCode |-> chainCode]

\* A node that holds a public key only.
PublicNode(publicKey, chainCode) ==
    [privateKey |-> NullKey, publicKey |-> publicKey, chainCode |-> chainCode]

\* fromPrivateKey looking at the chain code before the private key.
FromPrivateKeyChainFirst(privateKey, chainCode) ==
    IF Len(chainCode) # KeyLen THEN NodeThrown("InvalidHDNode", NoNode)
    ELSE IF ~IsValidPrivateKey(privateKey)
    THEN NodeThrown("InvalidSecp256k1PrivateKey", NoNode)
    ELSE NodeReturned(PrivateNode(privateKey, chainCode), NoNode)

\* HDNode.fromPrivateKey(privateKey, chainCode)
FromPrivateKey(privateKey, chainCode) ==
    IF ~IsValidPrivateKey(privateKey)
    THEN NodeThrown("InvalidSecp256k1PrivateKey", NoNode)
    ELSE IF Len(chainCode) # KeyLen THEN NodeThrown("InvalidHDNode", NoNode)
    ELSE NodeReturned(PrivateNode(privateKey, chainCode), NoNode)

\* HDNode.fromPublicKey(publicKey, chainCode)
FromPublicKey(publicKey, chainCode) ==
    IF Len(chainCode) # KeyLen THEN NodeThrown("InvalidHDNode", NoNode)
    ELSE IF ~IsCompressedPoint(CompressPublicKey(publicKey).val)
    THEN NodeThrown("InvalidHDNode", NoNode)
    ELSE NodeReturned(PublicNode(CompressPublicKey(publicKey).val, chainCode), NoNode)

\* No index needs the parent's private key.
IsHardenedNever(index) == FALSE

\* The high bit of index is set.
IsHardened(index) == index >= HARDENED_OFFSET

\* The HMAC reads the private key of the parent whatever the index.
ChildDataPrivate(node, index) ==
    <<0>> \o node.privateKey \o ToBytes(index, 1)

\* What the HMAC reads to derive the child of node at index; the index takes
\* one byte (four in the source).
ChildData(node, index) ==
    IF IsHardened(index)
    THEN <<0>> \o node.privateKey \o ToBytes(index, 1)
    ELSE node.publicKey \o ToBytes(index, 1)

\* The child whose private key is the parent's plus IL modulo the group order.
PrivateChild(parent, k, IR) ==
    IF k = 0 THEN NodeThrown("InvalidHDNode", parent)
    ELSE NodeReturned(PrivateNode(ToBytes(k, KeyLen), IR), parent)

\* The child whose public point is the parent's plus IL times the base point.
PublicChild(parent, Q, IR) ==
    IF Q = ZeroPoint THEN NodeThrown("InvalidHDNode", parent)
    ELSE NodeReturned(PublicNode(ToRawBytes(Q, TRUE), IR), parent)

\* The child of parent that the halves IL and IR of the HMAC give.
ChildOf(parent, IL, IR) ==
    IF ~IsWithinCurveOrder(IL) THEN NodeThrown("InvalidHDNode", parent)
    ELSE IF parent.privateKey # NullKey
    THEN PrivateChild(parent, Mod(IL + BEValue(parent.privateKey), CurveN), IR)
    ELSE PublicChild(parent, PointAdd(BaseMultiples[IL], PointOfPublicKey(parent.publicKey)), IR)

\* node.deriveChild(index)
DeriveChild(node, index) ==
    IF index \notin 0..(2 * HARDENED_OFFSET - 1) THEN NodeThrown("InvalidHDNode", node)
    ELSE IF IsHardened(index) /\ node.privateKey = NullKey
    THEN NodeThrown("InvalidHDNode", node)
    ELSE ChildOf(node,
                 HmacLeft(node.chainCode, ChildData(node, index), ScalarOfNode(node)),
                 HmacRight(node.chainCode, ChildData(node, index)))

\* The child of the node of outcome at the first index of path, and so on to
\* the end of path.
RECURSIVE DerivePath(_, _)
DerivePath(outcome, path) ==
    IF path = <<>> \/ ~outcome.ok THEN outcome
    ELSE DerivePath(DeriveChild(outcome.node, Head(path)), Tail(path))

\* fromSeed(seed): the key of the HMAC is a constant of the library.
FromSeed(seed) ==
    PrivateNode(ToBytes(HmacLeft(<<66, 105, 116>>, seed, 0), KeyLen),
                HmacRight(<<66, 105, 116>>, seed))

\* The counts of words a mnemonic can have.
WordCounts == {12, 15, 18, 21, 24}

\* A mnemonic is a sequence of places in the word list (0..2047); a word that
\* is not on the list has a place outside it.  toSeed accepts the phrases of a
\* valid count whose words are all on the list.
IsMnemonic(words) ==
    /\ Len(words) \in WordCounts
    /\ \A i \in 1..Len(words) : words[i] \in 0..2047

\* units, numbers of from bits each, read as one string of bits and cut into
\* numbers of to bits each, the most significant bit first; the bits left over
\* at the end are dropped.
Regroup(units, from, to) ==
    [g \in 1..((from * Len(units)) \div to) |->
        LET value[j \in 0..to] ==
                IF j = 0 THEN 0
                ELSE 2 * value[j - 1]
                     + ((units[(to * (g - 1) + j + from - 1) \div from]
                            \div (2 ^ (from - 1 - ((to * (g - 1) + j - 1) % from)))) % 2)
        IN  value[to]]

\* The phrase of the entropy ent: the bits of the entropy, then the first
\* Len(ent) / 4 bits of its hash, cut into groups of 11 bits; each group is
\* the place of a word.  The first byte of the hash is a number that depends on
\* every byte of the entropy.
EntropyToMnemonic(ent) ==
    Regroup(ent \o <<(HmacFold(<<>>, ent) * 113 + 5) % 256>>, 8, 11)

\* mnemonic.isValid(words): the phrase is the phrase of the entropy it encodes,
\* which is its bits without the checksum; never throws.
IsValid(words) ==
    /\ IsMnemonic(words)
    /\ words = EntropyToMnemonic(SubSeq(Regroup(words, 11, 8), 1, (4 * Len(words)) \div 3))

\* The outcome of a call on a mnemonic: val is the value returned, and no node
\* of the tree is handed to the caller.
MnemonicOutcome(err, val) ==
    [ok |-> err = "", err |-> err, val |-> val, node |-> NoNode, parent |-> NoNode]

\* The bytes a source of randomness delivers when asked for size bytes; which
\* is one source or another.
RandomGenerator(which, size) == [i \in 1..size |-> (89 * which + (74 * which + 37) * i) % 256]

\* mnemonic.generate as it is when it does not look at wordlistSize.
GenerateAnyCount(wordlistSize, which) ==
    MnemonicOutcome("", EntropyToMnemonic(RandomGenerator(which,
        4 * ((IF wordlistSize = <<>> THEN 12 ELSE wordlistSize[1]) \div 3))))

\* mnemonic.generate(wordlistSize, randomGenerator): wordlistSize is <<>> when
\* the caller leaves it out, and twelve words are generated.
Generate(wordlistSize, which) ==
    IF wordlistSize # <<>> /\ wordlistSize[1] \notin WordCounts
    THEN MnemonicOutcome("InvalidInput", <<>>)
    ELSE MnemonicOutcome("", EntropyToMnemonic(RandomGenerator(which,
             4 * ((IF wordlistSize = <<>> THEN 12 ELSE wordlistSize[1]) \div 3))))

\* mnemonic.toSeed(words): twice as wide as a scalar (64 bytes for 32).
MnemonicToSeed(words) ==
    LET fold[i \in 0..Len(words)] ==
            IF i = 0 THEN Len(words) ELSE (31 * fold[i - 1] + words[i] + 1) % 65521
    IN  ToBytes(fold[Len(words)], KeyLen) \o ToBytes(31 * fold[Len(words)] + 7, KeyLen)

\* m/44'/818'/0'/0, with 818 brought into the width of an index.
VET_DERIVATION_PATH == "m/44'/18'/0'/0"

\* The parser of paths after the character c; prev is what it held before: the
\* indices of the components it has passed, the number of the component it is
\* in (-1 before its first digit) and whether the mark of a hardened index
\* closed it.
PathStep(prev, c) ==
    IF ~prev.ok THEN prev
    ELSE IF c = "/"
    THEN IF prev.num = -1 THEN [prev EXCEPT !.ok = FALSE]
         ELSE [ok |-> TRUE,
               indices |-> Append(prev.indices,
                                  prev.num + (IF prev.hard THEN HARDENED_OFFSET ELSE 0)),
               num |-> -1, hard |-> FALSE]
    ELSE IF c = "'"
    THEN [prev EXCEPT !.ok = prev.num # -1 /\ ~prev.hard, !.hard = TRUE]
    ELSE IF DigitValue(c) \in 0..9 /\ ~prev.hard
    THEN IF prev.num = -1 THEN [prev EXCEPT !.num = DigitValue(c)]
         ELSE [prev EXCEPT !.ok = 10 * prev.num + DigitValue(c) < HARDENED_OFFSET,
                           !.num = (10 * prev.num + DigitValue(c)) % HARDENED_OFFSET]
    ELSE [prev EXCEPT !.ok = FALSE]

\* The parser after every character of path from the second on, and after the
\* '/' that would close the last component.
PathScanned(path) ==
    LET scan[i \in 1..Len(path)] ==
            IF i <= 2
            THEN [ok |-> i = 1 \/ CharAt(path, 2) = "/", indices |-> <<>>,
                  num |-> -1, hard |-> FALSE]
            ELSE PathStep(scan[i - 1], CharAt(path, i))
    IN  PathStep(scan[Len(path)], "/")

\* A parser that passes over what it cannot read.
ParsePathLenient(path) ==
    [ok |-> TRUE,
     indices |-> IF Len(path) <= 1 THEN <<>> ELSE PathScanned(path).indices]

\* The indices of path, 'm' and then '/' and a decimal number for each link,
\* with ' after the number of a hardened link; ok is FALSE for any other text.
ParsePath(path) ==
    IF Len(path) = 0 \/ CharAt(path, 1) \notin {"m", "M"} THEN [ok |-> FALSE, indices |-> <<>>]
    ELSE IF Len(path) = 1 THEN [ok |-> TRUE, indices |-> <<>>]
    ELSE [ok |-> PathScanned(path).ok,
          indices |-> IF PathScanned(path).ok THEN PathScanned(path).indices ELSE <<>>]

\* What the caller of derive gets of the outcome of the last link: the node, or
\* InvalidHDNode.
DerivedOrThrown(outcome) ==
    IF outcome.ok THEN NodeReturned(outcome.node, NoNode)
    ELSE NodeThrown("InvalidHDNode", NoNode)

\* root.derive(path): the node at path below the node of the outcome root.
DeriveBelow(root, path) ==
    IF ~root.ok THEN root
    ELSE IF ~ParsePath(path).ok THEN NodeThrown("InvalidHDNode", NoNode)
    ELSE DerivedOrThrown(DerivePath(root, ParsePath(path).indices))

\* HDNode.fromMnemonic(words, path): the node at path below the master node of
\* the seed of words.
FromMnemonic(words, path) ==
    IF ~IsMnemonic(words) THEN NodeThrown("InvalidHDNodeMnemonic", NoNode)
    ELSE DeriveBelow(NodeReturned(FromSeed(MnemonicToSeed(words)), NoNode), path)

\* What mnemonic.derivePrivateKey and mnemonic.deriveAddress return of the
\* outcome derived: the private key of the node, or its address, a function of
\* the public key written as '0x' and hexadecimal digits; or the error.
DerivedValue(derived, address) ==
    IF ~derived.ok THEN MnemonicOutcome(derived.err, IF address THEN "" ELSE <<>>)
    ELSE IF address
    THEN MnemonicOutcome("", "0x" \o BytesToHex(HmacRight(<<>>, derived.node.publicKey)))
    ELSE MnemonicOutcome("", derived.node.privateKey)

\* mnemonic.derivePrivateKey(words, path): the private key of
\* HDNode.fromMnemonic(words).derive(path); path is "omitted" when the caller
\* leaves it out, and the path is then 'm/0'.
DerivePrivateKey(words, path) ==
    DerivedValue(DeriveBelow(FromMnemonic(words, VET_DERIVATION_PATH),
                             IF path = "omitted" THEN "m/0" ELSE path), FALSE)

\* mnemonic.deriveAddress(words, path)
DeriveAddress(words, path) ==
    DerivedValue(DeriveBelow(FromMnemonic(words, VET_DERIVATION_PATH),
                             IF path = "omitted" THEN "m/0" ELSE path), TRUE)

\* ------------------------------------------------------------- the inputs

\* Most links a caller derives below the node fromMnemonic gave.
MaxDepth == 2

\* Phrases: a generated one of each count, and phrases that are not valid:
\* eleven words, a word that is not on the list, a last word changed.
MnemonicInputs ==
    {Generate(<<count>>, 1).val : count \in WordCounts}
        \cup {SubSeq(Generate(<<12>>, 1).val, 1, 11),
              [Generate(<<12>>, 1).val EXCEPT ![3] = 2048],
              <<2048>>}

\* Paths: well formed, and malformed in the last component, in a middle one and
\* at the start.
PathInputs ==
    {VET_DERIVATION_PATH, "m/0/1/4/2/4/3", "m/0/1/4/2/4/h", "m/0/h/1", "0/1", "m/128"}

\* --------------------------------------------------------- the state machine
\* memo: the nodes the caller holds.  a is the node fromMnemonic gave for the
\* mnemonic of twelve words, or a node derived from it, and pa the indices that
\* lead to it; b is the node fromPublicKey made of the public key and the chain
\* code of the node fromMnemonic gave, or a node derived from it, and pb the
\* indices that lead to it.  The caller first generates phrases, asks
\* mnemonic.isValid about the phrase it has just generated and about the
\* phrases above, derives a key and an address from a phrase it has found
\* valid, and tries the constructors on the inputs above; once it holds a node
\* it goes down the tree, from a node to its child.

NoNodes == [a |-> NoNode, pa |-> <<>>, b |-> NoNode, pb |-> <<>>]

InitHD ==
    /\ op = "none"
    /\ args = [index |-> 0]
    /\ result = NodeThrown("", NoNode)
    /\ memo = NoNodes
    /\ entropy = ZERO_BUFFER(KeyLen)

CallFromMnemonic ==
    \E words \in MnemonicInputs, path \in PathInputs :
        /\ memo.a = NoNode
        /\ op' = "HDNode.fromMnemonic"
        /\ args' = [words |-> words, path |-> path]
        /\ result' = FromMnemonic(words, path)
        /\ memo' = IF result'.ok /\ Len(words) = 12
                   THEN [NoNodes EXCEPT !.a = result'.node] ELSE memo
        /\ UNCHANGED entropy

\* A private key and a chain code: the inputs of the tests, or the pair of the
\* node the caller holds.
CallFromPrivateKey ==
    \E in \in IF memo.a = NoNode
              THEN { <<ZERO_BUFFER(KeyLen), ZERO_BUFFER(KeyLen - 1)>>,
                     <<ZERO_BUFFER(KeyLen - 1), ZERO_BUFFER(KeyLen)>>,
                     <<ToBytes(1, KeyLen), ZERO_BUFFER(KeyLen - 1)>>,
                     <<ToBytes(1, KeyLen), ZERO_BUFFER(KeyLen)>> }
              ELSE {<<memo.a.privateKey, memo.a.chainCode>>} :
        /\ op' = "HDNode.fromPrivateKey"
        /\ args' = [privateKey |-> in[1], chainCode |-> in[2]]
        /\ result' = FromPrivateKey(in[1], in[2])
        /\ UNCHANGED <<memo, entropy>>

\* A public key and a chain code.
CallFromPublicKey ==
    \E in \in IF memo.a = NoNode
              THEN { <<ZERO_BUFFER(KeyLen + 1), ZERO_BUFFER(KeyLen - 1)>>,
                     <<ZERO_BUFFER(KeyLen), ZERO_BUFFER(KeyLen)>>,
                     <<ToRawBytes(BASE, TRUE), ZERO_BUFFER(KeyLen - 1)>>,
                     <<ToRawBytes(BASE, FALSE), ZERO_BUFFER(KeyLen)>> }
              ELSE {<<memo.a.publicKey, memo.a.chainCode>>} :
        /\ op' = "HDNode.fromPublicKey"
        /\ args' = [publicKey |-> in[1], chainCode |-> in[2]]
        /\ result' = FromPublicKey(in[1], in[2])
        /\ memo' = IF result'.ok /\ memo.a # NoNode /\ memo.pa = <<>>
                   THEN [memo EXCEPT !.b = result'.node, !.pb = <<>>]
                   ELSE memo
        /\ UNCHANGED entropy

CallDeriveChild ==
    \E index \in {0, 1, HARDENED_OFFSET + 1}, private \in BOOLEAN :
        /\ (IF private THEN memo.a ELSE memo.b) # NoNode
        /\ Len(IF private THEN memo.pa ELSE memo.pb) < MaxDepth
        /\ op' = "deriveChild"
        /\ args' = [node |-> IF private THEN memo.a ELSE memo.b, index |-> index]
        /\ result' = DeriveChild(args'.node, index)
        /\ memo' = IF ~result'.ok
                   THEN IF private THEN [memo EXCEPT !.a = result'.parent]
                                   ELSE [memo EXCEPT !.b = result'.parent]
                   ELSE IF private
                   THEN [memo EXCEPT !.a = result'.node, !.pa = Append(memo.pa, index)]
                   ELSE [memo EXCEPT !.b = result'.node, !.pb = Append(memo.pb, index)]
        /\ UNCHANGED entropy

CallGenerate ==
    \E wordlistSize \in {<<>>, <<13>>} \cup {<<count>> : count \in WordCounts},
       which \in 0..1 :
        /\ memo.a = NoNode
        /\ op' = "mnemonic.generate"
        /\ args' = [wordlistSize |-> wordlistSize, randomGenerator |-> which]
        /\ result' = Generate(wordlistSize, which)
        /\ UNCHANGED <<memo, entropy>>

\* The caller asks about the phrase it has just generated, and about that
\* phrase with its last word changed to the next word of the list.
CallIsValid ==
    \E words \in IF op = "mnemonic.generate" /\ result.ok
                 THEN {result.val,
                       [result.val EXCEPT ![Len(result.val)] = (@ + 1) % 2048]}
                 ELSE MnemonicInputs :
        /\ memo.a = NoNode
        /\ op' = "mnemonic.isValid"
        /\ args' = [words |-> words]
        /\ result' = MnemonicOutcome("", IsValid(words))
        /\ UNCHANGED <<memo, entropy>>

\* The caller derives from the phrase it has just found valid.
CallDerivePrivateKey ==
    \E words \in IF op = "mnemonic.isValid" /\ result.val THEN {args.words} ELSE {<<2048>>},
       path \in PathInputs \cup {"omitted"} :
        /\ memo.a = NoNode
        /\ op' = "mnemonic.derivePrivateKey"
        /\ args' = [words |-> words, path |-> path]
        /\ result' = DerivePrivateKey(words, path)
        /\ UNCHANGED <<memo, entropy>>

CallDeriveAddress ==
    \E words \in IF op = "mnemonic.isValid" /\ result.val THEN {args.words} ELSE {<<2048>>},
       path \in PathInputs \cup {"omitted"} :
        /\ memo.a = NoNode
        /\ op' = "mnemonic.deriveAddress"
        /\ args' = [words |-> words, path |-> path]
        /\ result' = DeriveAddress(words, path)
        /\ UNCHANGED <<memo, entropy>>

NextHD ==
    \/ CallGenerate
    \/ CallIsValid
    \/ CallDerivePrivateKey
    \/ CallDeriveAddress
    \/ CallFromMnemonic
    \/ CallFromPrivateKey
    \/ CallFromPublicKey
    \/ CallDeriveChild

SpecHD == InitHD /\ [][NextHD]_vars

\* ------------------------------------------------------------ the properties

\* C17: for every index with the high bit set, deriveChild(index) on a node
\* that holds a public key only fails with InvalidHDNode and gives no child,
\* while deriveChild with the same index on the node that holds the private
\* key of the same public key, with the same chain code, succeeds.
C17_HardenedNeedsPrivateKey ==
    (op = "deriveChild" /\ args.index >= HARDENED_OFFSET) =>
        IF args.node.privateKey = NullKey
        THEN /\ ~result.ok
             /\ result.err = "InvalidHDNode"
             /\ result.node = NoNode
             /\ (memo.pa = memo.pb =>
                    /\ memo.a.privateKey # NullKey
                    /\ memo.a.publicKey = args.node.publicKey
                    /\ memo.a.chainCode = args.node.chainCode
                    /\ DeriveChild(memo.a, args.index).ok)
        ELSE result.ok /\ result.node.privateKey # NullKey

\* A hardened index was refused by a public-only node whose private twin the
\* caller holds.
C17_Witness ==
    /\ op = "deriveChild"
    /\ args.index >= HARDENED_OFFSET
    /\ args.node.privateKey = NullKey
    /\ ~result.ok
    /\ memo.pa = memo.pb
    /\ Len(memo.pb) >= 1

\* C18: for every path, the public key reached index by index from
\* HDNode.fromPublicKey(root.publicKey, root.chainCode) is the public key
\* reached by the same indices from the private-capable root, which
\* HDNode.fromMnemonic gives and HDNode.fromPrivateKey(root.privateKey,
\* root.chainCode) gives again.
C18_PublicDerivationAgrees ==
    /\ (memo.b # NoNode /\ memo.pa = memo.pb) =>
           /\ memo.b.publicKey = memo.a.publicKey
           /\ memo.b.chainCode = memo.a.chainCode
    /\ (op = "HDNode.fromPrivateKey" /\ memo.a # NoNode) =>
           result.ok /\ result.node = memo.a

\* The same two indices were derived on both sides.
C18_Witness ==
    /\ memo.b # NoNode
    /\ memo.pa = memo.pb
    /\ Len(memo.pb) = MaxDepth
    /\ memo.b.privateKey = NullKey
    /\ memo.a.privateKey # NullKey

\* The private key of node, if it holds one, is valid and its public key is
\* the compressed public key of that private key.
KeysAgree(node) ==
    node.privateKey # NullKey =>
        /\ IsValidPrivateKey(node.privateKey)
        /\ Len(node.publicKey) = KeyLen + 1
        /\ node.publicKey = DerivePublicKey(node.privateKey, "omitted").val

\* C19: every node that holds a private key, built by fromMnemonic for any of
\* the five counts of words, by fromPrivateKey, or reached by deriveChild from
\* such a node, has a private key that isValidPrivateKey accepts and the
\* compressed public key that derivePublicKey gives for it.
C19_PrivateNodeKeysAgree ==
    /\ result.ok => KeysAgree(result.node)
    /\ KeysAgree(memo.a)
    /\ (op = "HDNode.fromMnemonic" /\ IsMnemonic(args.words)
            /\ args.path = VET_DERIVATION_PATH) =>
           result.ok /\ result.node.privateKey # NullKey
    /\ (op = "HDNode.fromPrivateKey" /\ result.ok) => result.node.privateKey # NullKey

\* A node with a private key was derived two links below the node of the
\* mnemonic.
C19_Witness ==
    /\ op = "deriveChild"
    /\ result.ok
    /\ result.node.privateKey # NullKey
    /\ memo.a = result.node
    /\ Len(memo.pa) = MaxDepth

\* C20: every node reached by deriveChild from a node HDNode.fromPublicKey
\* gave has no private key and has a public key; deriveChild leaves the private
\* key, the public key and the chain code of the node it is called on as they
\* were.
C20_PublicOnlyChildren ==
    /\ memo.b.privateKey = NullKey
    /\ memo.b # NoNode => IsCompressedPoint(memo.b.publicKey)
    /\ op = "deriveChild" =>
           /\ result.parent = args.node
           /\ (result.ok /\ args.node.privateKey = NullKey) =>
                  /\ result.node.privateKey = NullKey
                  /\ IsCompressedPoint(result.node.publicKey)

\* A public-only node two links below the node fromPublicKey gave.
C20_Witness ==
    /\ op = "deriveChild"
    /\ args.node.privateKey = NullKey
    /\ result.ok
    /\ memo.b = result.node
    /\ memo.b # args.node
    /\ Len(memo.pb) = MaxDepth


\* =========================================================================
\* The JSON-RPC provider of packages/provider and packages/network: the
\* provider's request, the handlers of the RPC methods and the formatter of
\* transaction receipts.  A JavaScript value is a record of its typeof and a
\* text; the thor client, the mapping of block identifiers and the other
\* collaborators answer as the environment chooses: ok says whether the call
\* returned, val what it returned.
\* =========================================================================

\* How a call of the provider ends: err "" and val the value returned, or err
\* the class of the error and code its JSON-RPC code; calls are the calls made
\* to the thor client, handlers the handlers of RPC methods invoked.
RpcOutcome(err, code, val, calls) ==
    [ok |-> err = "", err |-> err, code |-> code, val |-> val, calls |-> calls,
     handlers |-> <<>>]

\* Hex0x.canon(exp, bytes): the digits of exp in lower case, padded with zeros
\* to the given number of bytes; an expression that is not hexadecimal or has
\* more digits throws.  val is the text returned.
Hex0xCanon(exp, bytes) ==
    IF HexOfString(exp).ok /\ HexOfString(exp).val.sign = POSITIVE
           /\ Len(HexOfString(exp).val.digits) <= 2 * bytes
    THEN [ok |-> TRUE,
          val |-> "0x" \o SubSeq("00000000", 1, 2 * bytes - Len(HexOfString(exp).val.digits))
                      \o HexOfString(exp).val.digits]
    ELSE [ok |-> FALSE, val |-> ""]

\* ethGetStorageAt without its try and catch.
EthGetStorageAtUncaught(params, revision, reply) ==
    IF Len(params) # 3 \/ params[1].t # "string" \/ params[2].t # "string"
           \/ (params[3].t # "object" /\ params[3].t # "string")
    THEN RpcOutcome("JSONRPCInvalidParams", -32602, "", <<>>)
    ELSE IF ~Hex0xCanon(params[2].s, KeyLen).ok THEN RpcOutcome("Error", 0, "", <<>>)
    ELSE IF ~revision.ok THEN RpcOutcome("Error", 0, "", <<>>)
    ELSE IF ~reply.ok
    THEN RpcOutcome("Error", 0, "",
                    <<[address |-> params[1].s,
                       position |-> Hex0xCanon(params[2].s, KeyLen).val,
                       revision |-> revision.val]>>)
    ELSE RpcOutcome("", 0, reply.val,
                    <<[address |-> params[1].s,
                       position |-> Hex0xCanon(params[2].s, KeyLen).val,
                       revision |-> revision.val]>>)

\* ethGetStorageAt(thorClient, params): revision is how
\* getCorrectBlockNumberRPCToVeChain(params[2]) ends, reply how
\* thorClient.accounts.getStorageAt does.  The arguments of the call to the
\* client are evaluated before the call is made.
EthGetStorageAt(params, revision, reply) ==
    IF Len(params) # 3 \/ params[1].t # "string" \/ params[2].t # "string"
           \/ (params[3].t # "object" /\ params[3].t # "string")
    THEN RpcOutcome("JSONRPCInvalidParams", -32602, "", <<>>)
    ELSE IF ~Hex0xCanon(params[2].s, KeyLen).ok
    THEN RpcOutcome("JSONRPCInternalError", -32603, "", <<>>)
    ELSE IF ~revision.ok THEN RpcOutcome("JSONRPCInternalError", -32603, "", <<>>)
    ELSE IF ~reply.ok
    THEN RpcOutcome("JSONRPCInternalError", -32603, "",
                    <<[address |-> params[1].s,
                       position |-> Hex0xCanon(params[2].s, KeyLen).val,
                       revision |-> revision.val]>>)
    ELSE RpcOutcome("", 0, reply.val,
                    <<[address |-> params[1].s,
                       position |-> Hex0xCanon(params[2].s, KeyLen).val,
                       revision |-> revision.val]>>)

\* The methods the provider knows.
RPC_METHODS ==
    {"eth_getStorageAt", "net_version", "eth_mining", "eth_getFilterLogs",
     "engine_newPayloadV2", "engine_getPayloadBodiesByHashV1"}

\* RPCMethodsMap(thorClient)[method](params): netVersion, ethMining,
\* engineNewPayloadV2, engineGetPayloadBodiesByHashV1 and the handler of
\* eth_getFilterLogs throw that they are not implemented.
RPCMethodsMap(method, params, revision, reply) ==
    IF method = "eth_getStorageAt" THEN EthGetStorageAt(params, revision, reply)
    ELSE RpcOutcome("NotImplementedError", 0, "", <<>>)

\* request without the check of the method.
RequestUnchecked(method, params, revision, reply) ==
    [RPCMethodsMap(method, params, revision, reply)
        EXCEPT !.handlers = <<[method |-> method, params |-> params]>>]

\* VechainProvider.request(args)
Request(method, params, revision, reply) ==
    IF method \notin RPC_METHODS THEN RpcOutcome("InvalidDataTypeError", 0, "", <<>>)
    ELSE [RPCMethodsMap(method, params, revision, reply)
             EXCEPT !.handlers = <<[method |-> method, params |-> params]>>]

\* Hex.of0x(n) of a number: 0x and its hexadecimal digits.
HexOf0x(n) ==
    LET hex[v \in 0..n] ==
            IF v < 16 THEN CharAt(HexDigits, v + 1)
            ELSE hex[v \div 16] \o CharAt(HexDigits, (v % 16) + 1)
    IN  "0x" \o hex[n]

\* The formatter numbering the logs from zero in every receipt.
FormatTransactionReceiptNoOffset(receipt, transactionIndex, logIndexOffset) ==
    [logs |-> IF Len(receipt.outputs) > 0 /\ Len(receipt.outputs[1].events) > 0
              THEN [index \in 1..Len(receipt.outputs[1].events) |->
                       [address |-> receipt.outputs[1].events[index],
                        removed |-> FALSE,
                        transactionIndex |-> HexOf0x(transactionIndex),
                        logIndex |-> HexOf0x(index - 1)]]
              ELSE <<>>,
     contractAddress |-> IF Len(receipt.outputs) > 0
                         THEN receipt.outputs[1].contractAddress ELSE "null",
     status |-> IF receipt.reverted THEN "0x0" ELSE "0x1",
     transactionIndex |-> HexOf0x(transactionIndex)]

\* formatTransactionReceiptToRPCStandard(transactionHash, receipt, transaction,
\* blockContainsTransaction, chainId): transactionIndex is what
\* getTransactionIndexIntoBlock returned for the transaction and the block,
\* logIndexOffset what getNumberOfLogsAheadOfTransactionIntoBlockExpanded did;
\* an event is its address, and null is the text "null".
FormatTransactionReceiptToRPCStandard(receipt, transactionIndex, logIndexOffset) ==
    [logs |-> IF Len(receipt.outputs) > 0 /\ Len(receipt.outputs[1].events) > 0
              THEN [index \in 1..Len(receipt.outputs[1].events) |->
                       [address |-> receipt.outputs[1].events[index],
                        removed |-> FALSE,
                        transactionIndex |-> HexOf0x(transactionIndex),
                        logIndex |-> HexOf0x(index - 1 + logIndexOffset)]]
              ELSE <<>>,
     contractAddress |-> IF Len(receipt.outputs) > 0
                         THEN receipt.outputs[1].contractAddress ELSE "null",
     status |-> IF receipt.reverted THEN "0x0" ELSE "0x1",
     transactionIndex |-> HexOf0x(transactionIndex)]

\* ------------------------------------------------------------- the inputs

\* The params given to ethGetStorageAt: too few, too many, and three values
\* among two strings that are hexadecimal, one that is not, a block tag, an
\* object that names a block, null, a number and undefined.
ParamsInputs ==
    LET values == { StringExp("0x1f"), StringExp("0xAb12c"), StringExp("0xfoo"),
                    StringExp("latest"),
                    [t |-> "object", s |-> "{blockNumber}"], [t |-> "object", s |-> "null"],
                    [t |-> "number", s |-> "1"], [t |-> "undefined", s |-> ""] }
    IN  {<<>>, <<StringExp("0x1f"), StringExp("0x1f")>>,
         <<StringExp("0x1f"), StringExp("0x1f"), StringExp("latest"), StringExp("latest")>>}
            \cup {<<a, StringExp("0x1f"), StringExp("latest")>> : a \in values}
            \cup {<<StringExp("0x1f"), b, c>> : b \in values, c \in values}

\* --------------------------------------------------------- the state machine

InitRpc ==
    /\ op = "none"
    /\ args = [params |-> <<>>]
    /\ result = RpcOutcome("", 0, "", <<>>)
    /\ memo = NoMemo
    /\ entropy = ZERO_BUFFER(KeyLen)

CallEthGetStorageAt ==
    \E params \in ParamsInputs,
       revision \in {[ok |-> TRUE, val |-> "best"], [ok |-> FALSE, val |-> ""]},
       reply \in {[ok |-> TRUE, val |-> "0x01"], [ok |-> FALSE, val |-> ""]} :
        /\ op' = "ethGetStorageAt"
        /\ args' = [params |-> params, revision |-> revision, reply |-> reply]
        /\ result' = EthGetStorageAt(params, revision, reply)
        /\ UNCHANGED <<memo, entropy>>

CallRequest ==
    \E method \in RPC_METHODS \cup {"eth_foo", ""},
       params \in {<<>>, <<[t |-> "number", s |-> "-1"]>>,
                   <<StringExp("SOME_RANDOM_PARAM")>>,
                   <<StringExp("0x1f"), StringExp("0x1f"), StringExp("latest")>>,
                   <<StringExp("0x1f"), StringExp("0xfoo"), StringExp("latest")>>},
       revision \in {[ok |-> TRUE, val |-> "best"], [ok |-> FALSE, val |-> ""]},
       reply \in {[ok |-> TRUE, val |-> "0x01"], [ok |-> FALSE, val |-> ""]} :
        /\ op' = "request"
        /\ args' = [method |-> method, params |-> params, revision |-> revision,
                    reply |-> reply]
        /\ result' = Request(method, params, revision, reply)
        /\ UNCHANGED <<memo, entropy>>

\* A receipt with no output, with one output or with two; an output with no
\* event, with one, or with three.
CallFormatTransactionReceipt ==
    \E outputs \in {<<>>,
                    <<[contractAddress |-> "null", events |-> <<>>]>>,
                    <<[contractAddress |-> "0xc1", events |-> <<"0xa1">>]>>,
                    <<[contractAddress |-> "null", events |-> <<"0xa1", "0xa2", "0xa1">>]>>,
                    <<[contractAddress |-> "0xc1", events |-> <<>>],
                      [contractAddress |-> "null", events |-> <<"0xa1">>]>>,
                    <<[contractAddress |-> "null", events |-> <<"0xa2", "0xa1">>],
                      [contractAddress |-> "0xc1", events |-> <<"0xa1">>]>>},
       reverted \in BOOLEAN, transactionIndex \in {0, 1}, logIndexOffset \in {0, 1, 14, 15, 254} :
        /\ op' = "formatTransactionReceiptToRPCStandard"
        /\ args' = [receipt |-> [outputs |-> outputs, reverted |-> reverted],
                    transactionIndex |-> transactionIndex,
                    logIndexOffset |-> logIndexOffset]
        /\ result' = FormatTransactionReceiptToRPCStandard(args'.receipt, transactionIndex,
                                                           logIndexOffset)
        /\ UNCHANGED <<memo, entropy>>

NextRpc ==
    \/ CallEthGetStorageAt
    \/ CallRequest
    \/ CallFormatTransactionReceipt

SpecRpc == InitRpc /\ [][NextRpc]_vars

\* ------------------------------------------------------------ the properties

C25_ChecksEagerAndOrdered ==
    /\ op = "sign" =>
           IF ~IsValidMessageHash(args.h)
           THEN result = Thrown("InvalidSecp256k1MessageHashError", FALSE)
           ELSE IF ~IsValidPrivateKey(args.k)
           THEN result = Thrown("InvalidSecp256k1PrivateKeyError", FALSE)
           ELSE result.lib
    /\ op = "recover" =>
           IF ~IsValidMessageHash(args.h)
           THEN result = Thrown("InvalidSecp256k1MessageHashError", FALSE)
           ELSE IF Len(args.sig) # SIGNATURE_LENGTH
           THEN result = Thrown("InvalidSecp256k1SignatureError", FALSE)
           ELSE IF args.sig[SIGNATURE_LENGTH] \notin {0, 1}
           THEN result = Thrown("InvalidSecp256k1SignatureRecoveryError", FALSE)
           ELSE result.lib

\* recover was given a hash one byte short and a signature without its
\* recovery byte.
C25_Witness ==
    /\ op = "recover"
    /\ Len(args.h) = KeyLen - 1
    /\ Len(args.sig) = SIGNATURE_LENGTH - 1
    /\ result = Thrown("InvalidSecp256k1MessageHashError", FALSE)

\* C26: for every valid private key k, compressPublicKey(derivePublicKey(k,
\* false)) is derivePublicKey(k, true): 33 bytes, the prefix 2 when the last
\* byte of y is even and 3 when it is odd, then x; compressPublicKey gives a
\* compressed key back unchanged, so compressing twice is compressing once.
C26_CompressOfDerive ==
    /\ (op = "derivePublicKey" /\ result.ok) =>
           /\ CompressPublicKey(DerivePublicKey(args.k, "false").val)
                  = Returned(DerivePublicKey(args.k, "true").val, FALSE)
           /\ CompressPublicKey(DerivePublicKey(args.k, "true").val)
                  = Returned(DerivePublicKey(args.k, "true").val, FALSE)
    /\ (op = "compressPublicKey" /\ IsPointEncoding(args.pk)) =>
           /\ result.ok
           /\ Len(result.val) = KeyLen + 1
           /\ IsPointEncoding(result.val)
           /\ CompressPublicKey(result.val) = result
           /\ args.pk[1] = 4 =>
                  /\ result.val[1] = 2 + (args.pk[2 * KeyLen + 1] % 2)
                  /\ Slice(result.val, 1, KeyLen + 1) = Slice(args.pk, 1, KeyLen + 1)
           /\ args.pk[1] # 4 => result.val = args.pk

\* The uncompressed key of a private key whose y has an even first byte and
\* an odd last byte was compressed.
C26_Witness ==
    /\ op = "compressPublicKey"
    /\ IsPointEncoding(args.pk)
    /\ args.pk[1] = 4
    /\ args.pk[2 * KeyLen + 1] % 2 = 1
    /\ args.pk[KeyLen + 2] % 2 = 0
    /\ result.val[1] = 3

\* C27: a method decorated with ErrorInterceptor(message) gives the result
\* of the original method when that does not throw; when it throws, the
\* caller gets an InvalidDataType: the same error if it was one, otherwise a
\* new one with the message of the decorator that names the operation as the
\* class and the method, as in Address.of.
C27_InterceptorNamesClassAndMethod ==
    op = "intercepted" =>
        IF args.original.ok THEN result = args.original
        ELSE /\ ~result.ok
             /\ result.err.kind = "InvalidDataType"
             /\ IF args.original.err.kind = "InvalidDataType"
                THEN result.err = args.original.err
                ELSE /\ result.err.reason = args.message
                     /\ result.err.method = args.cls \o "." \o args.methodName

\* C28 as stated: ethGetStorageAt rejects with JSONRPCInvalidParams (-32602),
\* without a call to the thor client, whenever params are not three elements,
\* the first two strings and the third a string or an object that names a
\* block; otherwise it calls getStorageAt once with the canonical position and
\* returns its value, or rejects with JSONRPCInternalError (-32603).
C28_StorageOutcomesAsStated ==
    op = "ethGetStorageAt" =>
        IF ~(/\ Len(args.params) = 3
             /\ args.params[1].t = "string"
             /\ args.params[2].t = "string"
             /\ \/ args.params[3].t = "string"
                \/ args.params[3] = [t |-> "object", s |-> "{blockNumber}"])
        THEN result = RpcOutcome("JSONRPCInvalidParams", -32602, "", <<>>)
        ELSE \/ result.ok /\ Len(result.calls) = 1
             \/ result.err = "JSONRPCInternalError" /\ result.code = -32603

\* C28: ethGetStorageAt rejects with JSONRPCInvalidParams (-32602), without a
\* call to the thor client, whenever params are not three elements, the first
\* two strings and the third a string or a value whose typeof is object, null
\* included; otherwise it either returns what its one call of getStorageAt
\* returned, made with the position in canonical form, or rejects with
\* JSONRPCInternalError (-32603) and with no other error.
C28_StorageOutcomes ==
    op = "ethGetStorageAt" =>
        IF ~(/\ Len(args.params) = 3
             /\ args.params[1].t = "string"
             /\ args.params[2].t = "string"
             /\ args.params[3].t \in {"string", "object"})
        THEN result = RpcOutcome("JSONRPCInvalidParams", -32602, "", <<>>)
        ELSE IF result.ok
        THEN /\ result.val = args.reply.val
             /\ Len(result.calls) = 1
             /\ result.calls[1].address = args.params[1].s
             /\ Len(result.calls[1].position) = 2 + 2 * KeyLen
             /\ HexOfString(result.calls[1].position).val.digits
                    = SubSeq("00000000", 1, 2 * KeyLen - Len(args.params[2].s) + 2)
                          \o ToLowerCase(SubSeq(args.params[2].s, 3, Len(args.params[2].s)))
        ELSE /\ result.err = "JSONRPCInternalError"
             /\ result.code = -32603
             /\ Len(result.calls) <= 1
             /\ (~args.revision.ok \/ ~HexOfString(args.params[2].s).ok) => result.calls = <<>>

\* A third element that is null passed the check of params and the call was
\* rejected as an internal error, the client never called.
C28_Witness ==
    /\ op = "ethGetStorageAt"
    /\ Len(args.params) = 3
    /\ args.params[3] = [t |-> "object", s |-> "null"]
    /\ ~args.revision.ok
    /\ result = RpcOutcome("JSONRPCInternalError", -32603, "", <<>>)

NumberOfHex(text) == BEValue(HexToBytes(AlignToBytes(SubSeq(text, 3, Len(text)))))

\* C30: formatTransactionReceiptToRPCStandard gives one log for each event of
\* the first output of the receipt, in the order of the events, and the i-th
\* log, counted from 0, has the logIndex that writes offset + i in hexadecimal,
\* offset being the number of logs ahead of the transaction in the block: the
\* log indexes of a receipt are consecutive; there is no log when the receipt
\* has no output or its first output no event, contractAddress is null when
\* there is no output, and status is 0x0 when the receipt is reverted and 0x1
\* otherwise.
C30_ReceiptLogIndexes ==
    op = "formatTransactionReceiptToRPCStandard" =>
        /\ Len(result.logs) = IF args.receipt.outputs = <<>> THEN 0
                              ELSE Len(args.receipt.outputs[1].events)
        /\ \A i \in 1..Len(result.logs) :
               /\ result.logs[i].address = args.receipt.outputs[1].events[i]
               /\ SubSeq(result.logs[i].logIndex, 1, 2) = "0x"
               /\ NumberOfHex(result.logs[i].logIndex) = args.logIndexOffset + i - 1
               /\ result.logs[i].logIndex = HexOf0x(args.logIndexOffset + i - 1)
               /\ i > 1 => NumberOfHex(result.logs[i].logIndex)
                               = NumberOfHex(result.logs[i - 1].logIndex) + 1
        /\ args.receipt.outputs = <<>> => result.contractAddress = "null"
        /\ args.receipt.outputs # <<>> =>
               result.contractAddress = args.receipt.outputs[1].contractAddress
        /\ result.status = "0x0" <=> args.receipt.reverted
        /\ result.status = "0x1" <=> ~args.receipt.reverted

\* Three logs whose indexes go from one hexadecimal digit to two.
C30_Witness ==
    /\ op = "formatTransactionReceiptToRPCStandard"
    /\ Len(result.logs) = 3
    /\ result.logs[1].logIndex = "0xe"
    /\ result.logs[3].logIndex = "0x10"
    /\ result.status = "0x0"


C24_GenerateGivesValidPhrase ==
    /\ (op = "mnemonic.generate" /\ args.wordlistSize \in {<<count>> : count \in WordCounts}) =>
           /\ result.ok
           /\ Len(result.val) = args.wordlistSize[1]
           /\ IsValid(result.val)
           /\ DerivePrivateKey(result.val, "omitted").ok
    /\ (op = "mnemonic.generate" /\ args.wordlistSize = <<>>) =>
           result.ok /\ Len(result.val) = 12 /\ IsValid(result.val)
    /\ (op = "mnemonic.generate" /\ args.wordlistSize = <<13>>) =>
           ~result.ok /\ result.val = <<>>
    /\ op = "mnemonic.isValid" =>
           /\ result.ok
           /\ result.val \in BOOLEAN
           /\ (Len(args.words) \notin WordCounts
                 \/ \E i \in 1..Len(args.words) : args.words[i] \notin 0..2047) => ~result.val
    /\ (op = "mnemonic.derivePrivateKey" /\ args.path = "omitted" /\ IsValid(args.words)) =>
           /\ result.ok
           /\ Len(result.val) = KeyLen
           /\ IsValidPrivateKey(result.val)

\* A private key was derived from a phrase of twenty-four words that
\* mnemonic.generate gave and mnemonic.isValid found valid.
C24_Witness ==
    /\ op = "mnemonic.derivePrivateKey"
    /\ args.path = "omitted"
    /\ Len(args.words) = 24
    /\ args.words = Generate(<<24>>, 0).val
    /\ result.ok
    /\ IsValidPrivateKey(result.val)

====
